---- MODULE Spec2Model ----
(***************************************************************************)
(* State-snapshot engine of the eden watcher (Indexer in                   *)
(* packages/eden-watcher/src/indexer.ts): staging of diffs, finalization   *)
(* when a block becomes canonical, and checkpoint compaction.              *)
(*                                                                         *)
(* The IPLDBlock table is the set `rows`; one row is a record              *)
(* [id, blockHash, contractAddress, kind, cid, data].  JSON-like values    *)
(* are tagged records [t, v] so that maps, arrays and scalars can be told  *)
(* apart the way lodash's merge tells them apart.                          *)
(***************************************************************************)
EXTENDS Integers, Sequences, FiniteSets, TLC

VARIABLES rows, nextId, syncStatus, complete, pc, job, last, finalized, ops,
          hooks, workers, uniqueIndex, tx, calc, peer, watcher

vars == <<rows, nextId, syncStatus, complete, pc, job, last, finalized, ops,
          hooks, workers, uniqueIndex, tx, calc, peer, watcher>>

(***************************************************************************)
(* Bounds of the model.                                                    *)
(***************************************************************************)
MaxOps == 5
MaxCheckpointOps == 3

(***************************************************************************)
(* JSON-like values.                                                       *)
(***************************************************************************)
Num(n) == [t |-> "num", v |-> n]
Str(s) == [t |-> "str", v |-> s]
Null == [t |-> "null", v |-> 0]
Undefined == [t |-> "undef", v |-> 0]
MapV(f) == [t |-> "map", v |-> f]
ArrV(s) == [t |-> "arr", v |-> s]

Max(a, b) == IF a >= b THEN a ELSE b

(***************************************************************************)
(* lodash _.merge(object, source), value by value.  A source map is merged *)
(* key by key into the destination (a destination that is not an object    *)
(* is replaced by an empty map first); a source array is merged index by   *)
(* index into a destination array (or into a fresh array); every other     *)
(* source value overwrites.  A destination array under a source map does   *)
(* not occur for the values used here.                                     *)
(***************************************************************************)
RECURSIVE MergeValue(_, _)
MergeValue(o, s) ==
    IF s.t = "map"
    THEN LET base == IF o.t = "map" THEN o.v ELSE << >>
             keys == DOMAIN base \cup DOMAIN s.v
         IN MapV([k \in keys |->
                    IF k \in DOMAIN s.v
                    THEN MergeValue(IF k \in DOMAIN base THEN base[k] ELSE Undefined, s.v[k])
                    ELSE base[k]])
    ELSE IF s.t = "arr"
    THEN LET base == IF o.t = "arr" THEN o.v ELSE << >>
             n == Max(Len(base), Len(s.v))
         IN ArrV([i \in 1..n |->
                    IF i <= Len(s.v)
                    THEN MergeValue(IF i <= Len(base) THEN base[i] ELSE Undefined, s.v[i])
                    ELSE base[i]])
    ELSE IF s.t = "undef" THEN o
    ELSE s

(***************************************************************************)
(* Blocks (BlockProgress rows) and contracts.  b2 and b2x are two blocks   *)
(* at the same height.                                                     *)
(***************************************************************************)
Contracts == {"c1", "c2"}
BlockHashes == {"b1", "b2", "b2x", "b3"}
NoHash == "none"

blockNumber(h) ==
    CASE h = "b1" -> 1
      [] h = "b2" -> 2
      [] h = "b2x" -> 2
      [] h = "b3" -> 3

blockCid(h) == [t |-> "bcid", v |-> h]

(***************************************************************************)
(* Inputs: partial states handed to createDiffStaged / createDiff, the     *)
(* seed state of an initial checkpoint, checkpoint intervals.              *)
(***************************************************************************)
P1 == MapV("state" :> MapV("balance" :> Num(1) @@ "allow" :> MapV("x" :> Num(1))))
P2 == MapV("state" :> MapV("balance" :> Num(2) @@ "allow" :> MapV("y" :> Num(1))))
PartialStates == {P1, P2}
InitialData == MapV("state" :> MapV("balance" :> Num(0)))
ExplicitData == {InitialData, P1}
NoData == Null
NoInterval == 0
Intervals == {NoInterval, 1, 2}

(***************************************************************************)
(* Content addressing: dag-cbor encoding, sha256, CID v1.                  *)
(***************************************************************************)
encode(data) == [t |-> "bytes", v |-> data]
decode(bytes) == bytes.v
CID(bytes) == [t |-> "cid", v |-> bytes.v]

(***************************************************************************)
(* The store.                                                              *)
(***************************************************************************)
NoId == 0
AnyKind == "null"

getIPLDBlocks(rs, h, c, k) ==
    {r \in rs : r.blockHash = h /\ r.contractAddress = c /\ r.kind = k}

getStagedIPLDBlocks(rs, h) ==
    {r \in rs : r.blockHash = h /\ r.kind = "diff_staged"}

\* Most recent row of a contract: highest block number, then latest created.
getLatestIPLDBlock(rs, c, k, bounded, maxNumber) ==
    LET cand == {r \in rs : /\ r.contractAddress = c
                            /\ (k = AnyKind \/ r.kind = k)
                            /\ (bounded => blockNumber(r.blockHash) <= maxNumber)}
        After(r, q) == \/ blockNumber(r.blockHash) > blockNumber(q.blockHash)
                       \/ /\ blockNumber(r.blockHash) = blockNumber(q.blockHash)
                          /\ r.id >= q.id
    IN {r \in cand : \A q \in cand : After(r, q)}

\* Diff rows of a contract above the checkpoint's block number, ascending.
RECURSIVE SortRows(_)
SortRows(rs) ==
    IF rs = {} THEN << >>
    ELSE LET first == CHOOSE r \in rs : \A q \in rs :
                          \/ blockNumber(r.blockHash) < blockNumber(q.blockHash)
                          \/ /\ blockNumber(r.blockHash) = blockNumber(q.blockHash)
                             /\ r.id <= q.id
         IN <<first>> \o SortRows(rs \ {first})

getDiffIPLDBlocksByCheckpoint(rs, c, checkpointBlockNumber) ==
    SortRows({r \in rs : /\ r.contractAddress = c
                         /\ r.kind = "diff"
                         /\ blockNumber(r.blockHash) > checkpointBlockNumber})

\* repo.save(entity): an entity that came from the table is written back to
\* its own row, a new entity gets a fresh row id.
saveOrUpdateIPLDBlock(rs, nid, e) ==
    IF e.id = NoId
    THEN [rows |-> rs \cup {[e EXCEPT !.id = nid]}, nextId |-> nid + 1]
    ELSE [rows |-> {r \in rs : r.id # e.id} \cup {e}, nextId |-> nid]

\* Variant: the removal takes every diff_staged row, whatever its block number.
removeStagedIPLDBlocksAnyNumber(rs, number) ==
    {r \in rs : r.kind # "diff_staged"}

removeStagedIPLDBlocks(rs, number) ==
    {r \in rs : ~(r.kind = "diff_staged" /\ blockNumber(r.blockHash) = number)}

(***************************************************************************)
(* Indexer.prepareIPLDBlock                                                *)
(***************************************************************************)
Meta(c, kind, parentRows, h) ==
    MapV("id" :> Str(c) @@
         "kind" :> Str(kind) @@
         "parent" :> MapV("/" :> IF parentRows = {} THEN Null
                                 ELSE (CHOOSE r \in parentRows : TRUE).cid) @@
         "ethBlock" :> MapV("cid" :> MapV("/" :> blockCid(h)) @@
                            "num" :> Num(blockNumber(h))))

ParentLookup(rs, c, h) == getLatestIPLDBlock(rs, c, AnyKind, TRUE, blockNumber(h))

\* Variant: the existing row of (block, contract, kind) is not looked up, a
\* new row is prepared every time.
prepareIPLDBlockNoLookup(rs, h, c, data, kind) ==
    LET newData == MapV([k \in DOMAIN data.v \cup {"meta"} |->
                           IF k = "meta"
                           THEN Meta(c, kind, ParentLookup(rs, c, h), h)
                           ELSE data.v[k]])
        bytes == encode(newData)
    IN [ok |-> TRUE,
        entity |-> [id |-> NoId,
                    blockHash |-> h,
                    contractAddress |-> c,
                    cid |-> CID(bytes),
                    kind |-> newData.v["meta"].v["kind"].v,
                    data |-> bytes]]

prepareIPLDBlock(rs, h, c, data, kind) ==
    LET current == getIPLDBlocks(rs, h, c, kind)
    IN IF Cardinality(current) > 1
       THEN [ok |-> FALSE]
       ELSE LET cur == CHOOSE r \in current : TRUE
                newData ==
                    IF current # {}
                    THEN MergeValue(decode(cur.data), data)
                    ELSE MapV([k \in DOMAIN data.v \cup {"meta"} |->
                                 IF k = "meta"
                                 THEN Meta(c, kind, ParentLookup(rs, c, h), h)
                                 ELSE data.v[k]])
                bytes == encode(newData)
            IN [ok |-> TRUE,
                entity |-> [id |-> IF current # {} THEN cur.id ELSE NoId,
                            blockHash |-> h,
                            contractAddress |-> c,
                            cid |-> CID(bytes),
                            kind |-> newData.v["meta"].v["kind"].v,
                            data |-> bytes]]

(***************************************************************************)
(* Results of an engine call: the store it leaves and what it returns:     *)
(* "ok" for void, "none" for undefined, a block hash, or the assertion     *)
(* that failed.                                                            *)
(***************************************************************************)
Errors == {"errNoBlock", "errNotUnique", "errNoInitialCheckpoint", "errCheckpointAtBlock",
           "errNotComplete", "errNotPruned", "errNoCheckpoint",
           "errHook", "errNoHash", "errNoData", "errPush", "errDuplicateKey",
           "errStore"}
IsError(ret) == ret \in Errors

Result(rs, nid, ret) == [rows |-> rs, nextId |-> nid, ret |-> ret, hookCalls |-> 0]
Saved(s, ret) == [rows |-> s.rows, nextId |-> s.nextId, ret |-> ret, hookCalls |-> 0]

\* The call has invoked a contract-specific hook once.
Hooked(res) == [res EXCEPT !.hookCalls = @ + 1]

createDiffStaged(rs, nid, c, h, data) ==
    LET p == prepareIPLDBlock(rs, h, c, data, "diff_staged")
    IN IF ~p.ok THEN Result(rs, nid, "errNotUnique")
       ELSE Saved(saveOrUpdateIPLDBlock(rs, nid, p.entity), "ok")

\* Variant: createDiff without its two assertions on the latest checkpoint.
createDiffUnchecked(rs, nid, c, h, data) ==
    LET p == prepareIPLDBlock(rs, h, c, data, "diff")
    IN IF ~p.ok THEN Result(rs, nid, "errNotUnique")
       ELSE Saved(saveOrUpdateIPLDBlock(rs, nid, p.entity), "ok")

createDiff(rs, nid, c, h, data) ==
    LET checkpoint == getLatestIPLDBlock(rs, c, "checkpoint", FALSE, 0)
    IN IF checkpoint = {} THEN Result(rs, nid, "errNoInitialCheckpoint")
       ELSE IF (CHOOSE r \in checkpoint : TRUE).blockHash = h
       THEN Result(rs, nid, "errCheckpointAtBlock")
       ELSE LET p == prepareIPLDBlock(rs, h, c, data, "diff")
            IN IF ~p.ok THEN Result(rs, nid, "errNotUnique")
               ELSE Saved(saveOrUpdateIPLDBlock(rs, nid, p.entity), "ok")

RECURSIVE MergeDiffs(_, _)
MergeDiffs(state, diffBlocks) ==
    IF diffBlocks = << >> THEN state
    ELSE MergeDiffs(MergeValue(state, decode(Head(diffBlocks).data).v["state"]),
                    Tail(diffBlocks))

\* Variant: the pruned region check lets through the block right above the
\* canonical one.
InPrunedRegionOffByOne(number, sync) == number <= sync.latestCanonicalBlockNumber + 1

InPrunedRegion(number, sync) == number <= sync.latestCanonicalBlockNumber

\* Variant: the interval gate also stops a target exactly one interval above
\* the checkpoint.
IntervalGateInclusive(checkpointInterval, checkpointNumber, currentNumber) ==
    /\ checkpointInterval # NoInterval
    /\ checkpointNumber >= currentNumber - checkpointInterval

IntervalGate(checkpointInterval, checkpointNumber, currentNumber) ==
    /\ checkpointInterval # NoInterval
    /\ checkpointNumber > currentNumber - checkpointInterval

\* Variant: a call without a block hash targets the first block.
TargetBlockFirst(blockHash, sync) ==
    IF blockHash # NoHash THEN blockHash ELSE "b1"

TargetBlock(blockHash, sync) ==
    IF blockHash # NoHash THEN blockHash ELSE sync.latestCanonicalBlockHash

\* Variant: every known block counts as complete.
isCompleteAlways(h, done) == h \in BlockHashes

isComplete(h, done) == h \in done

\* Variant: the latest checkpoint of the contract at any block number.
LatestCheckpointLookupUnbounded(rs, c, h) == getLatestIPLDBlock(rs, c, "checkpoint", FALSE, 0)

\* The contract's latest checkpoint at or below the target block.
LatestCheckpointLookup(rs, c, h) == getLatestIPLDBlock(rs, c, "checkpoint", TRUE, blockNumber(h))

\* Variant: the hook's answer is ignored.
HookHandledNever(disableDefaultCheckpoint) == FALSE

HookHandled(disableDefaultCheckpoint) == disableDefaultCheckpoint

\* hookThrows: the createStateCheckpoint hook throws when it is called;
\* disableDefault: what it returns when it does not.
\* Variant: the state checkpoint hook is called before the interval gate.
createCheckpointHookBeforeGate(rs, nid, sync, done, c, blockHash, data, checkpointInterval, disableDefault, hookThrows) ==
    LET h == TargetBlock(blockHash, sync)
    IN IF h \notin BlockHashes THEN Result(rs, nid, "errNoBlock")
       ELSE IF data # NoData
       THEN LET p == prepareIPLDBlock(rs, h, c, data, "checkpoint")
            IN IF ~p.ok THEN Result(rs, nid, "errNotUnique")
               ELSE Saved(saveOrUpdateIPLDBlock(rs, nid, p.entity), "none")
       ELSE IF ~isComplete(h, done) THEN Result(rs, nid, "errNotComplete")
       ELSE IF ~InPrunedRegion(blockNumber(h), sync) THEN Result(rs, nid, "errNotPruned")
       ELSE LET checkpointBlock == LatestCheckpointLookup(rs, c, h)
            IN IF checkpointBlock = {} THEN Result(rs, nid, "errNoCheckpoint")
               ELSE LET cp == CHOOSE r \in checkpointBlock : TRUE
                        cpNumber == blockNumber(cp.blockHash)
                    IN IF hookThrows THEN Hooked(Result(rs, nid, "errHook"))
                       ELSE IF IntervalGate(checkpointInterval, cpNumber, blockNumber(h))
                       THEN Hooked(Result(rs, nid, "none"))
                       ELSE IF HookHandled(disableDefault) THEN Hooked(Result(rs, nid, h))
                       ELSE LET diffBlocks == getDiffIPLDBlocksByCheckpoint(rs, c, cpNumber)
                                newData == MapV("state" :>
                                    MergeDiffs(decode(cp.data).v["state"], diffBlocks))
                                p == prepareIPLDBlock(rs, h, c, newData, "checkpoint")
                            IN IF ~p.ok THEN Hooked(Result(rs, nid, "errNotUnique"))
                               ELSE Hooked(Saved(saveOrUpdateIPLDBlock(rs, nid, p.entity), h))

createCheckpoint(rs, nid, sync, done, c, blockHash, data, checkpointInterval, disableDefault, hookThrows) ==
    LET h == TargetBlock(blockHash, sync)
    IN IF h \notin BlockHashes THEN Result(rs, nid, "errNoBlock")
       ELSE IF data # NoData
       THEN LET p == prepareIPLDBlock(rs, h, c, data, "checkpoint")
            IN IF ~p.ok THEN Result(rs, nid, "errNotUnique")
               ELSE Saved(saveOrUpdateIPLDBlock(rs, nid, p.entity), "none")
       ELSE IF ~isComplete(h, done) THEN Result(rs, nid, "errNotComplete")
       ELSE IF ~InPrunedRegion(blockNumber(h), sync) THEN Result(rs, nid, "errNotPruned")
       ELSE LET checkpointBlock == LatestCheckpointLookup(rs, c, h)
            IN IF checkpointBlock = {} THEN Result(rs, nid, "errNoCheckpoint")
               ELSE LET cp == CHOOSE r \in checkpointBlock : TRUE
                        cpNumber == blockNumber(cp.blockHash)
                    IN IF IntervalGate(checkpointInterval, cpNumber, blockNumber(h))
                       THEN Result(rs, nid, "none")
                       ELSE IF hookThrows THEN Hooked(Result(rs, nid, "errHook"))
                       ELSE IF HookHandled(disableDefault) THEN Hooked(Result(rs, nid, h))
                       ELSE LET diffBlocks == getDiffIPLDBlocksByCheckpoint(rs, c, cpNumber)
                                newData == MapV("state" :>
                                    MergeDiffs(decode(cp.data).v["state"], diffBlocks))
                                p == prepareIPLDBlock(rs, h, c, newData, "checkpoint")
                            IN IF ~p.ok THEN Hooked(Result(rs, nid, "errNotUnique"))
                               ELSE Hooked(Saved(saveOrUpdateIPLDBlock(rs, nid, p.entity), h))

(***************************************************************************)
(* Indexer.processCLICheckpoint and Indexer.processCheckpoint              *)
(***************************************************************************)
\* Variant: a failed push undoes the checkpoint.
processCLICheckpointRollback(rs, nid, sync, done, c, blockHash, disableDefault, hookThrows, pushFails) ==
    LET res == createCheckpoint(rs, nid, sync, done, c, blockHash, NoData, NoInterval,
                                disableDefault, hookThrows)
        checkpointIPLDBlocks == getIPLDBlocks(res.rows, res.ret, c, "checkpoint")
    IN IF IsError(res.ret) THEN res
       ELSE IF res.ret \notin BlockHashes THEN [res EXCEPT !.ret = "errNoHash"]
       ELSE IF Cardinality(checkpointIPLDBlocks) > 1 THEN [res EXCEPT !.ret = "errNotUnique"]
       ELSE IF checkpointIPLDBlocks = {} THEN [res EXCEPT !.ret = "errNoData"]
       ELSE IF pushFails THEN [res EXCEPT !.ret = "errPush", !.rows = rs, !.nextId = nid]
       ELSE res

\* pushFails: the push of the checkpoint data to IPFS throws.
processCLICheckpoint(rs, nid, sync, done, c, blockHash, disableDefault, hookThrows, pushFails) ==
    LET res == createCheckpoint(rs, nid, sync, done, c, blockHash, NoData, NoInterval,
                                disableDefault, hookThrows)
        checkpointIPLDBlocks == getIPLDBlocks(res.rows, res.ret, c, "checkpoint")
    IN IF IsError(res.ret) THEN res
       ELSE IF res.ret \notin BlockHashes THEN [res EXCEPT !.ret = "errNoHash"]
       ELSE IF Cardinality(checkpointIPLDBlocks) > 1 THEN [res EXCEPT !.ret = "errNotUnique"]
       ELSE IF checkpointIPLDBlocks = {} THEN [res EXCEPT !.ret = "errNoData"]
       ELSE IF pushFails THEN [res EXCEPT !.ret = "errPush"]
       ELSE res

\* The watched contracts, in the order the store returns them.
WatchedContracts ==
    <<[address |-> "c1", checkpoint |-> TRUE, startingBlock |-> 1],
      [address |-> "c2", checkpoint |-> TRUE, startingBlock |-> 2],
      [address |-> "c3", checkpoint |-> FALSE, startingBlock |-> 1]>>

\* The initial checkpoint hook: it seeds the contract's first checkpoint at
\* the block, or throws.
createInitialCheckpoint(rs, nid, sync, done, c, h, hookThrows) ==
    IF hookThrows THEN Hooked(Result(rs, nid, "errHook"))
    ELSE Hooked(createCheckpoint(rs, nid, sync, done, c, h, InitialData, NoInterval, FALSE, FALSE))

\* The loop of processCheckpoint over the contracts; st is the store and the
\* hook calls so far.
RECURSIVE processCheckpointLoop(_, _, _, _, _, _, _, _)
processCheckpointLoop(st, sync, done, contracts, h, checkpointInterval, disableDefault, hookThrows) ==
    IF contracts = << >> THEN [st EXCEPT !.ret = "ok"]
    ELSE LET contract == Head(contracts)
             checkpointBlock == getLatestIPLDBlock(st.rows, contract.address, "checkpoint", FALSE, 0)
             res == IF ~contract.checkpoint THEN st
                    ELSE IF checkpointBlock = {}
                    THEN IF blockNumber(h) = contract.startingBlock
                         THEN createInitialCheckpoint(st.rows, st.nextId, sync, done,
                                                      contract.address, h, hookThrows)
                         ELSE st
                    ELSE createCheckpoint(st.rows, st.nextId, sync, done, contract.address, h,
                                          NoData, checkpointInterval, disableDefault, hookThrows)
             next == [res EXCEPT !.hookCalls = IF res = st THEN @ ELSE @ + st.hookCalls]
         IN IF res # st /\ IsError(res.ret) THEN next
            ELSE processCheckpointLoop(next, sync, done, Tail(contracts), h, checkpointInterval,
                                       disableDefault, hookThrows)

\* Variant: processCheckpoint runs the loop whatever the configured interval.
processCheckpointAnyInterval(rs, nid, sync, done, h, checkpointInterval, disableDefault, hookThrows) ==
    processCheckpointLoop(Result(rs, nid, "ok"), sync, done, WatchedContracts, h,
                          checkpointInterval, disableDefault, hookThrows)

processCheckpoint(rs, nid, sync, done, h, checkpointInterval, disableDefault, hookThrows) ==
    IF checkpointInterval <= 0 THEN Result(rs, nid, "ok")
    ELSE processCheckpointLoop(Result(rs, nid, "ok"), sync, done, WatchedContracts, h,
                               checkpointInterval, disableDefault, hookThrows)

(***************************************************************************)
(* State machine.  `last` records the call that completed last, with what  *)
(* it returned; `job` is the processCanonicalBlock call in progress;       *)
(* `finalized` collects the (block, contract) pairs whose staged row was    *)
(* promoted to a diff and removed.                                         *)
(***************************************************************************)
NoJob == [blockHash |-> NoHash, stagedBlocks |-> {}, todo |-> {}, rowsBefore |-> {}]

\* The sync status row before any block was indexed.
NoSyncStatus ==
    [latestCanonicalBlockHash |-> NoHash, latestCanonicalBlockNumber |-> 0,
     latestIndexedBlockHash |-> NoHash, latestIndexedBlockNumber |-> 0,
     chainHeadBlockHash |-> NoHash, chainHeadBlockNumber |-> 0]

\* A database transaction of the engine: which method opened it, where the
\* method stands, what became of the transaction and what the method threw.
NoTx == [method |-> "none", number |-> 0, at |-> "idle", state |-> "none", released |-> 0,
         failed |-> "none", thrown |-> "none"]

\* A computation of a pure function: its name, its inputs and its result.
NoCalc == [fn |-> "none", a |-> Null, b |-> Null, out |-> Null]

\* Hook invocations made by the call that ran last, and whether the
\* contract-specific hook of that call throws.
\* The Peer after construction: no handler, no remote peer, no stream.  regs
\* lists the subscribeMessage calls made so far, each with the handler it
\* registered and whether its unsubscribe function has been called; conns
\* counts the open connections of the node to each remote peer; got and
\* pushed record the last dispatch and the last broadcast.
RemotePeers == {"p1", "p2"}
Handlers == {"h1", "h2"}

NoPeer ==
    [messageHandlers |-> << >>,
     regs |-> << >>,
     got |-> [h \in Handlers |-> 0],
     received |-> 0,
     remotePeerIds |-> << >>,
     peerStreamMap |-> {},
     conns |-> [p \in RemotePeers |-> 0],
     pushed |-> {}]

\* The ERC20 watcher for one (blockHash, token) pair: nothing synced, no
\* getEvents call in progress.
Callers == {"g1", "g2", "g3"}

NoWatcher ==
    [didSyncEvents |-> FALSE, fetched |-> 0, saved |-> 0, calls |-> 0,
     at |-> [g \in Callers |-> "idle"]]

NoHook == [calls |-> 0, throws |-> FALSE]

\* Job-queue workers that stage diffs concurrently: what a worker has read
\* and prepared and not saved yet.
Workers == {"w1", "w2"}
NoWork == [pc |-> "idle", entity |-> [id |-> NoId], data |-> NoData, sawRow |-> FALSE]

Call(op, c, h, data, interval, hook, repeated, ret) ==
    [op |-> op, contractAddress |-> c, blockHash |-> h, data |-> data,
     checkpointInterval |-> interval, disableDefault |-> hook,
     repeated |-> repeated, ret |-> ret]

InitStore ==
    /\ rows = {}
    /\ nextId = 1
    /\ syncStatus = NoSyncStatus
    /\ complete = {}
    /\ pc = "idle"
    /\ job = NoJob
    /\ last = Call("init", NoHash, NoHash, NoData, NoInterval, FALSE, FALSE, "ok")
    /\ finalized = {}
    /\ ops = 0
    /\ hooks = NoHook
    /\ workers = [w \in Workers |-> NoWork]
    /\ tx = NoTx
    /\ peer = NoPeer
    /\ watcher = NoWatcher

\* The IPLDBlock table has no unique index on (block, contractAddress, kind).
Init ==
    /\ InitStore
    /\ uniqueIndex = FALSE
    /\ calc = NoCalc

Apply(res) ==
    /\ rows' = res.rows
    /\ nextId' = res.nextId

CreateDiffStaged(c, h, data) ==
    /\ pc = "idle"
    /\ LET res == createDiffStaged(rows, nextId, c, h, data)
           repeated == /\ last.op = "createDiffStaged" /\ last.ret = "ok"
                       /\ last.contractAddress = c /\ last.blockHash = h /\ last.data = data
       IN /\ Apply(res)
          /\ last' = Call("createDiffStaged", c, h, data, NoInterval, FALSE, repeated, res.ret)
    /\ ops' = ops + 1
    /\ hooks' = NoHook
    /\ UNCHANGED <<syncStatus, complete, pc, job, finalized, workers, uniqueIndex, tx, calc, peer, watcher>>

CreateDiff(c, h, data) ==
    /\ pc = "idle"
    /\ LET res == createDiff(rows, nextId, c, h, data)
       IN /\ Apply(res)
          /\ last' = Call("createDiff", c, h, data, NoInterval, FALSE, FALSE, res.ret)
    /\ ops' = ops + 1
    /\ hooks' = NoHook
    /\ UNCHANGED <<syncStatus, complete, pc, job, finalized, workers, uniqueIndex, tx, calc, peer, watcher>>

\* Variant: a checkpoint row is written at the target before the
\* preconditions of the default compaction are checked.
CreateCheckpointWritesFirst(c, h, data, interval, disableDefault) ==
    /\ pc = "idle"
    /\ LET res == createCheckpoint(rows, nextId, syncStatus, complete, c, h, data, interval,
                                   disableDefault, FALSE)
           early == createCheckpoint(rows, nextId, syncStatus, complete, c, h, InitialData,
                                     interval, disableDefault, FALSE)
       IN /\ Apply(IF IsError(res.ret) THEN early ELSE res)
          /\ hooks' = [calls |-> res.hookCalls, throws |-> FALSE]
          /\ last' = Call("createCheckpoint", c, h, data, interval, disableDefault, FALSE, res.ret)
    /\ ops' = ops + 1
    /\ UNCHANGED <<syncStatus, complete, pc, job, finalized, workers, uniqueIndex, tx, calc, peer, watcher>>

CreateCheckpoint(c, h, data, interval, disableDefault) ==
    /\ pc = "idle"
    /\ LET res == createCheckpoint(rows, nextId, syncStatus, complete, c, h, data, interval,
                                   disableDefault, FALSE)
       IN /\ Apply(res)
          /\ hooks' = [calls |-> res.hookCalls, throws |-> FALSE]
          /\ last' = Call("createCheckpoint", c, h, data, interval, disableDefault, FALSE, res.ret)
    /\ ops' = ops + 1
    /\ UNCHANGED <<syncStatus, complete, pc, job, finalized, workers, uniqueIndex, tx, calc, peer, watcher>>

\* processCanonicalBlock -> finalizeDiffStaged: read the staged rows of the block.
ProcessCanonicalBlock(h) ==
    /\ pc = "idle"
    /\ pc' = "finalizeDiffStaged"
    /\ job' = [blockHash |-> h,
               stagedBlocks |-> getStagedIPLDBlocks(rows, h),
               todo |-> getStagedIPLDBlocks(rows, h),
               rowsBefore |-> rows]
    /\ ops' = ops + 1
    /\ hooks' = NoHook
    /\ UNCHANGED <<rows, nextId, syncStatus, complete, last, finalized, workers, uniqueIndex, tx, calc, peer, watcher>>

\* finalizeDiffStaged, one turn of the loop: createDiff for one staged row.
\* A failed assertion ends processCanonicalBlock.
FinalizeCreateDiff ==
    /\ pc = "finalizeDiffStaged"
    /\ \E stagedBlock \in job.todo :
         LET res == createDiff(rows, nextId, stagedBlock.contractAddress,
                               stagedBlock.blockHash, decode(stagedBlock.data))
         IN /\ Apply(res)
            /\ IF IsError(res.ret)
               THEN /\ pc' = "idle"
                    /\ job' = NoJob
                    /\ last' = Call("processCanonicalBlock", NoHash, job.blockHash,
                                    NoData, NoInterval, FALSE, FALSE, res.ret)
               ELSE /\ job' = [job EXCEPT !.todo = job.todo \ {stagedBlock}]
                    /\ UNCHANGED <<pc, last>>
    /\ UNCHANGED <<syncStatus, complete, finalized, ops, hooks, workers, uniqueIndex, tx, calc, peer, watcher>>

HasDiff(rs, h, c) == getIPLDBlocks(rs, h, c, "diff") # {}

\* Variant: finalizeDiffStaged ends after the loop and removes no staged row.
FinalizeKeepStaged ==
    /\ pc = "finalizeDiffStaged"
    /\ job.todo = {}
    /\ pc' = "createStateDiff"
    /\ finalized' = finalized \cup
          {<<s.blockHash, s.contractAddress>> : s \in
              {q \in job.stagedBlocks : HasDiff(rows, q.blockHash, q.contractAddress)}}
    /\ UNCHANGED <<rows, nextId, syncStatus, complete, job, last, ops, hooks, workers, uniqueIndex, tx, calc, peer, watcher>>

\* finalizeDiffStaged, after the loop: removeStagedIPLDBlocks(block.blockNumber).
FinalizeRemoveStaged ==
    /\ pc = "finalizeDiffStaged"
    /\ job.todo = {}
    /\ rows' = removeStagedIPLDBlocks(rows, blockNumber(job.blockHash))
    /\ pc' = "createStateDiff"
    /\ finalized' = finalized \cup
          {<<s.blockHash, s.contractAddress>> : s \in
              {q \in job.stagedBlocks : HasDiff(rows', q.blockHash, q.contractAddress)}}
    /\ UNCHANGED <<nextId, syncStatus, complete, job, last, ops, hooks, workers, uniqueIndex, tx, calc, peer, watcher>>

\* processCanonicalBlock, the createStateDiff hook (the generated hook saves nothing).
CreateStateDiffHook ==
    /\ pc = "createStateDiff"
    /\ pc' = "idle"
    /\ job' = NoJob
    /\ last' = Call("processCanonicalBlock", NoHash, job.blockHash, NoData, NoInterval,
                    FALSE, FALSE, "ok")
    /\ hooks' = [hooks EXCEPT !.calls = @ + 1]
    /\ UNCHANGED <<rows, nextId, syncStatus, complete, finalized, ops, workers, uniqueIndex, tx, calc, peer, watcher>>

\* The process dies in the middle of processCanonicalBlock; the store keeps
\* what was written so far.
Crash ==
    /\ pc # "idle"
    /\ pc' = "idle"
    /\ job' = NoJob
    /\ last' = Call("crash", NoHash, job.blockHash, NoData, NoInterval, FALSE, FALSE,
                    IF pc = "finalizeDiffStaged" /\ job.todo = {} /\ job.stagedBlocks # {}
                    THEN "diffsCreated" ELSE "other")
    /\ UNCHANGED <<rows, nextId, syncStatus, complete, finalized, ops, hooks, workers, uniqueIndex, tx, calc, peer, watcher>>

\* The chain position: blocks are completed in the order they are indexed
\* (the fork block b2x last), and the canonical block advances one height at
\* a time over completed blocks.
IndexingOrder == <<"b1", "b2", "b3", "b2x">>

UpdateBlockProgress(h) ==
    /\ pc = "idle"
    /\ h \notin complete
    /\ \E i \in 1..Len(IndexingOrder) :
          /\ IndexingOrder[i] = h
          /\ \A j \in 1..(i - 1) : IndexingOrder[j] \in complete
    /\ complete' = complete \cup {h}
    /\ UNCHANGED <<rows, nextId, syncStatus, pc, job, last, finalized, ops, hooks, workers, uniqueIndex, tx, calc, peer, watcher>>

UpdateSyncStatusCanonicalBlock(h) ==
    /\ pc = "idle"
    /\ h \in complete
    /\ blockNumber(h) = syncStatus.latestCanonicalBlockNumber + 1
    /\ syncStatus' = [syncStatus EXCEPT !.latestCanonicalBlockHash = h,
                                        !.latestCanonicalBlockNumber = blockNumber(h)]
    /\ UNCHANGED <<rows, nextId, complete, pc, job, last, finalized, ops, hooks, workers, uniqueIndex, tx, calc, peer, watcher>>

WithinBudget(bound) == ops < bound

(***************************************************************************)
(* Staging and finalization: initial checkpoints are seeded with explicit  *)
(* data at block b1, diffs are staged or written at the two blocks of      *)
(* height 2, and either of them is made canonical.                         *)
(***************************************************************************)
SeedBlocks == {"b1"}
StagingBlocks == {"b2", "b2x"}

Next ==
    \/ /\ WithinBudget(MaxOps)
       /\ \/ \E c \in Contracts, h \in StagingBlocks, data \in PartialStates : CreateDiffStaged(c, h, data)
          \/ \E c \in Contracts, h \in StagingBlocks, data \in PartialStates : CreateDiff(c, h, data)
          \/ \E c \in Contracts, h \in SeedBlocks : CreateCheckpoint(c, h, InitialData, NoInterval, FALSE)
          \/ \E h \in StagingBlocks : ProcessCanonicalBlock(h)
    \/ FinalizeCreateDiff
    \/ FinalizeRemoveStaged
    \/ CreateStateDiffHook

Spec == Init /\ [][Next]_vars

(***************************************************************************)
(* Checkpoint compaction of one contract over all blocks, with the chain   *)
(* position moving.                                                        *)
(***************************************************************************)
DiffBlocks == {"b2", "b3"}

NextCheckpoint ==
    \/ /\ WithinBudget(MaxCheckpointOps)
       /\ \/ \E h \in DiffBlocks, data \in PartialStates : CreateDiff("c1", h, data)
          \/ \E h \in BlockHashes \cup {NoHash}, data \in ExplicitData :
                CreateCheckpoint("c1", h, data, NoInterval, FALSE)
          \/ \E h \in BlockHashes \cup {NoHash}, interval \in Intervals, disableDefault \in BOOLEAN :
                CreateCheckpoint("c1", h, NoData, interval, disableDefault)
    \/ \E h \in BlockHashes : UpdateSyncStatusCanonicalBlock(h)
    \/ \E h \in BlockHashes : UpdateBlockProgress(h)

SpecCheckpoint == Init /\ [][NextCheckpoint]_vars

(***************************************************************************)
(* Staging and finalization with crashes of the process.                   *)
(***************************************************************************)
NextCrash == Next \/ Crash

SpecCrash == Init /\ [][NextCrash]_vars

(***************************************************************************)
(* Concurrent staging: two job-queue workers run createDiffStaged, each    *)
(* awaiting the store between prepareIPLDBlock and saveOrUpdateIPLDBlock.  *)
(* Whether the IPLDBlock table carries a unique index on (block,           *)
(* contractAddress, kind) is left open: both stores are explored.          *)
(***************************************************************************)
MaxWorkerCalls == 4

\* The row would be a second row of its (block, contractAddress, kind).
DuplicatesKey(rs, e) ==
    \E r \in rs : /\ r.id # e.id
                  /\ r.blockHash = e.blockHash
                  /\ r.contractAddress = e.contractAddress
                  /\ r.kind = e.kind

\* createDiffStaged up to the await of prepareIPLDBlock: the worker has read
\* the rows of (block, contract, diff_staged) and built the row to save.
WorkerPrepare(w, c, h, data) ==
    /\ workers[w].pc = "idle"
    /\ LET p == prepareIPLDBlock(rows, h, c, data, "diff_staged")
       IN IF ~p.ok
          THEN /\ last' = Call("createDiffStaged", c, h, data, NoInterval, FALSE, FALSE, "errNotUnique")
               /\ UNCHANGED workers
          ELSE /\ workers' = [workers EXCEPT ![w] =
                     [pc |-> "prepared", entity |-> p.entity, data |-> data,
                      sawRow |-> getIPLDBlocks(rows, h, c, "diff_staged") # {}]]
               /\ UNCHANGED last
    /\ ops' = ops + 1
    /\ UNCHANGED <<rows, nextId, syncStatus, complete, pc, job, finalized, hooks, uniqueIndex, tx, calc, peer, watcher>>

\* Variant: the save looks the key up again and writes into the row that is
\* there by now.
WorkerSaveUpsert(w) ==
    /\ workers[w].pc = "prepared"
    /\ LET e == workers[w].entity
           there == getIPLDBlocks(rows, e.blockHash, e.contractAddress, e.kind)
           target == IF there # {} THEN [e EXCEPT !.id = (CHOOSE r \in there : TRUE).id] ELSE e
       IN /\ Apply(saveOrUpdateIPLDBlock(rows, nextId, target))
          /\ last' = Call("createDiffStaged", e.contractAddress, e.blockHash, workers[w].data,
                          NoInterval, FALSE, FALSE, "ok")
    /\ workers' = [workers EXCEPT ![w] = NoWork]
    /\ UNCHANGED <<syncStatus, complete, pc, job, finalized, ops, hooks, uniqueIndex, tx, calc, peer, watcher>>

\* createDiffStaged, the rest: saveOrUpdateIPLDBlock(ipldBlock).  A store
\* with the unique index rejects a second row of the key.
WorkerSave(w) ==
    /\ workers[w].pc = "prepared"
    /\ LET e == workers[w].entity
           rejected == uniqueIndex /\ DuplicatesKey(rows, e)
       IN /\ IF rejected THEN UNCHANGED <<rows, nextId>>
             ELSE Apply(saveOrUpdateIPLDBlock(rows, nextId, e))
          /\ last' = Call("createDiffStaged", e.contractAddress, e.blockHash, workers[w].data,
                          NoInterval, FALSE, FALSE,
                          IF rejected THEN "errDuplicateKey" ELSE "ok")
    /\ workers' = [workers EXCEPT ![w] = NoWork]
    /\ UNCHANGED <<syncStatus, complete, pc, job, finalized, ops, hooks, uniqueIndex, tx, calc, peer, watcher>>

InitConcurrent ==
    /\ InitStore
    /\ uniqueIndex \in BOOLEAN
    /\ calc = NoCalc

NextConcurrent ==
    \/ /\ WithinBudget(MaxWorkerCalls)
       /\ \E w \in Workers, h \in StagingBlocks, data \in PartialStates : WorkerPrepare(w, "c1", h, data)
    \/ \E w \in Workers : WorkerSave(w)

SpecConcurrent == InitConcurrent /\ [][NextConcurrent]_vars

(***************************************************************************)
(* Jobs of the runner and the checkpoint CLI, with contract-specific hooks *)
(* that may throw and a content store whose push may fail.                 *)
(***************************************************************************)
MaxJobs == 3

\* createCheckpoint without data, with a createStateCheckpoint hook that throws.
CreateCheckpointHookThrows(c, h, interval) ==
    /\ pc = "idle"
    /\ LET res == createCheckpoint(rows, nextId, syncStatus, complete, c, h, NoData, interval,
                                   FALSE, TRUE)
       IN /\ Apply(res)
          /\ hooks' = [calls |-> res.hookCalls, throws |-> TRUE]
          /\ last' = Call("createCheckpoint", c, h, NoData, interval, FALSE, FALSE, res.ret)
    /\ ops' = ops + 1
    /\ UNCHANGED <<syncStatus, complete, pc, job, finalized, workers, uniqueIndex, tx, calc, peer, watcher>>

ProcessCheckpoint(h, interval, disableDefault, hookThrows) ==
    /\ pc = "idle"
    /\ LET res == processCheckpoint(rows, nextId, syncStatus, complete, h, interval,
                                    disableDefault, hookThrows)
       IN /\ Apply(res)
          /\ hooks' = [calls |-> res.hookCalls, throws |-> hookThrows]
          /\ last' = Call("processCheckpoint", NoHash, h, NoData, interval, disableDefault,
                          FALSE, res.ret)
    /\ ops' = ops + 1
    /\ UNCHANGED <<syncStatus, complete, pc, job, finalized, workers, uniqueIndex, tx, calc, peer, watcher>>

ProcessCLICheckpoint(c, h, disableDefault, pushFails) ==
    /\ pc = "idle"
    /\ LET res == processCLICheckpoint(rows, nextId, syncStatus, complete, c, h,
                                       disableDefault, FALSE, pushFails)
       IN /\ Apply(res)
          /\ hooks' = [calls |-> res.hookCalls, throws |-> FALSE]
          /\ last' = Call("processCLICheckpoint", c, h, NoData, NoInterval, disableDefault,
                          FALSE, res.ret)
    /\ ops' = ops + 1
    /\ UNCHANGED <<syncStatus, complete, pc, job, finalized, workers, uniqueIndex, tx, calc, peer, watcher>>

\* Variant: the error of the createStateDiff hook is caught.
CreateStateDiffHookCaught ==
    /\ pc = "createStateDiff"
    /\ pc' = "idle"
    /\ job' = NoJob
    /\ last' = Call("processCanonicalBlock", NoHash, job.blockHash, NoData, NoInterval,
                    FALSE, FALSE, "ok")
    /\ hooks' = [calls |-> hooks.calls + 1, throws |-> TRUE]
    /\ UNCHANGED <<rows, nextId, syncStatus, complete, finalized, ops, workers, uniqueIndex, tx, calc, peer, watcher>>

\* processCanonicalBlock, the createStateDiff hook throws.
CreateStateDiffHookThrows ==
    /\ pc = "createStateDiff"
    /\ pc' = "idle"
    /\ job' = NoJob
    /\ last' = Call("processCanonicalBlock", NoHash, job.blockHash, NoData, NoInterval,
                    FALSE, FALSE, "errHook")
    /\ hooks' = [calls |-> hooks.calls + 1, throws |-> TRUE]
    /\ UNCHANGED <<rows, nextId, syncStatus, complete, finalized, ops, workers, uniqueIndex, tx, calc, peer, watcher>>

JobBlocks == {"b1", "b2"}

NextJobs ==
    \/ /\ WithinBudget(MaxJobs)
       /\ \/ \E c \in Contracts : CreateDiffStaged(c, "b2", P1)
          \/ \E h \in JobBlocks : ProcessCanonicalBlock(h)
          \/ \E h \in JobBlocks, interval \in Intervals, disableDefault \in BOOLEAN, hookThrows \in BOOLEAN :
                ProcessCheckpoint(h, interval, disableDefault, hookThrows)
          \/ \E c \in Contracts, h \in JobBlocks, interval \in Intervals :
                CreateCheckpointHookThrows(c, h, interval)
          \/ \E c \in Contracts, h \in JobBlocks \cup {NoHash}, disableDefault \in BOOLEAN, pushFails \in BOOLEAN :
                ProcessCLICheckpoint(c, h, disableDefault, pushFails)
    \/ FinalizeCreateDiff
    \/ FinalizeRemoveStaged
    \/ CreateStateDiffHook
    \/ CreateStateDiffHookThrows
    \/ \E h \in JobBlocks : UpdateSyncStatusCanonicalBlock(h)
    \/ \E h \in JobBlocks : UpdateBlockProgress(h)

SpecJobs == Init /\ [][NextJobs]_vars

(***************************************************************************)
(* The engine's transactional methods.  All five share one shape:          *)
(*   dbTx = createTransactionRunner();                                     *)
(*   try { operation(dbTx); commit } catch { rollback; throw } finally     *)
(*   { release }                                                           *)
(* Every awaited call on the transaction but release may fail.             *)
(***************************************************************************)
MaxTx == 3

TxMethods == {"removeStagedIPLDBlocks", "getPrevIPLDBlock", "getHookStatus",
              "updateHookStatusProcessedBlock", "_fetchAndSaveEvents"}

\* createTransactionRunner: the method opens its transaction.
TxBegin(method, number) ==
    /\ pc = "idle"
    /\ tx.at \in {"idle", "done"}
    /\ tx' = [method |-> method, number |-> number, at |-> "operation", state |-> "active",
              released |-> 0, failed |-> "none", thrown |-> "none"]
    /\ ops' = ops + 1
    /\ UNCHANGED <<rows, nextId, syncStatus, complete, pc, job, last, finalized, hooks,
                   workers, uniqueIndex, calc, peer, watcher>>

\* try: the store operation inside the transaction.
TxOperation(fails) ==
    /\ tx.at = "operation"
    /\ tx' = IF fails THEN [tx EXCEPT !.at = "catch", !.failed = "operation"]
             ELSE [tx EXCEPT !.at = "commit"]
    /\ UNCHANGED <<rows, nextId, syncStatus, complete, pc, job, last, finalized, ops, hooks,
                   workers, uniqueIndex, calc, peer, watcher>>

\* Variant: a failed commit goes to the release without a rollback.
TxCommitNoRollback(fails) ==
    /\ tx.at = "commit"
    /\ IF fails
       THEN /\ tx' = [tx EXCEPT !.at = "finally", !.failed = "commit", !.thrown = "commit"]
            /\ UNCHANGED rows
       ELSE /\ tx' = [tx EXCEPT !.at = "finally", !.state = "committed"]
            /\ rows' = IF tx.method = "removeStagedIPLDBlocks"
                       THEN removeStagedIPLDBlocks(rows, tx.number) ELSE rows
    /\ UNCHANGED <<nextId, syncStatus, complete, pc, job, last, finalized, ops, hooks,
                   workers, uniqueIndex, calc, peer, watcher>>

\* try: commitTransaction.  The removal of staged rows takes effect here.
TxCommit(fails) ==
    /\ tx.at = "commit"
    /\ IF fails
       THEN /\ tx' = [tx EXCEPT !.at = "catch", !.failed = "commit"]
            /\ UNCHANGED rows
       ELSE /\ tx' = [tx EXCEPT !.at = "finally", !.state = "committed"]
            /\ rows' = IF tx.method = "removeStagedIPLDBlocks"
                       THEN removeStagedIPLDBlocks(rows, tx.number) ELSE rows
    /\ UNCHANGED <<nextId, syncStatus, complete, pc, job, last, finalized, ops, hooks,
                   workers, uniqueIndex, calc, peer, watcher>>

\* catch: rollbackTransaction, then throw error.  When the rollback itself
\* throws, that error leaves the catch block instead.
TxRollback(fails) ==
    /\ tx.at = "catch"
    /\ tx' = IF fails THEN [tx EXCEPT !.at = "finally", !.thrown = "rollback"]
             ELSE [tx EXCEPT !.at = "finally", !.state = "rolledBack", !.thrown = tx.failed]
    /\ UNCHANGED <<rows, nextId, syncStatus, complete, pc, job, last, finalized, ops, hooks,
                   workers, uniqueIndex, calc, peer, watcher>>

\* finally: release, and the method returns or throws.
TxRelease ==
    /\ tx.at = "finally"
    /\ tx' = [tx EXCEPT !.at = "done", !.released = @ + 1]
    /\ UNCHANGED <<rows, nextId, syncStatus, complete, pc, job, last, finalized, ops, hooks,
                   workers, uniqueIndex, calc, peer, watcher>>

NextTx ==
    \/ /\ WithinBudget(MaxTx)
       /\ \/ \E c \in Contracts, h \in StagingBlocks : CreateDiffStaged(c, h, P1)
          \/ \E method \in TxMethods : TxBegin(method, 2)
    \/ \E fails \in BOOLEAN : TxOperation(fails)
    \/ \E fails \in BOOLEAN : TxCommit(fails)
    \/ \E fails \in BOOLEAN : TxRollback(fails)
    \/ TxRelease

SpecTx == Init /\ [][NextTx]_vars

(***************************************************************************)
(* Finalization with a store that may fail.                                *)
(***************************************************************************)
MaxFailureOps == 4

\* finalizeDiffStaged: an awaited store call throws, in a createDiff of the
\* loop or in removeStagedIPLDBlocks (whose transaction is rolled back).  The
\* failing call writes nothing and the error leaves processCanonicalBlock.
FinalizeStoreFails ==
    /\ pc = "finalizeDiffStaged"
    /\ pc' = "idle"
    /\ job' = NoJob
    /\ last' = Call("processCanonicalBlock", NoHash, job.blockHash, NoData, NoInterval,
                    FALSE, FALSE, "errStore")
    /\ UNCHANGED <<rows, nextId, syncStatus, complete, finalized, ops, hooks, workers,
                   uniqueIndex, tx, calc, peer, watcher>>

NextStoreFailure ==
    \/ /\ WithinBudget(MaxFailureOps)
       /\ \/ \E c \in Contracts : CreateDiffStaged(c, "b2", P1)
          \/ \E c \in Contracts : CreateCheckpoint(c, "b1", InitialData, NoInterval, FALSE)
          \/ ProcessCanonicalBlock("b2")
    \/ FinalizeCreateDiff
    \/ FinalizeRemoveStaged
    \/ CreateStateDiffHook
    \/ FinalizeStoreFails

SpecStoreFailure == Init /\ [][NextStoreFailure]_vars

(***************************************************************************)
(* _.merge on its own: states with numbers, arrays and nested maps.        *)
(***************************************************************************)
MergeValues ==
    {Num(1), Num(2), ArrV(<< >>), ArrV(<<Num(1)>>), ArrV(<<Num(7), Num(8)>>),
     MapV("x" :> Num(1)), MapV("y" :> Num(2))}

MergeInputs ==
    {MapV("k" :> v @@ "n" :> w) : v \in MergeValues, w \in {Num(0), ArrV(<<Num(3)>>)}}

InitMerge ==
    /\ InitStore
    /\ uniqueIndex = FALSE
    /\ calc \in [fn : {"merge"}, a : MergeInputs, b : MergeInputs, out : {Null}]

\* data = _.merge(oldData, data)
Merge ==
    /\ calc.fn = "merge"
    /\ calc' = [calc EXCEPT !.fn = "merged", !.out = MergeValue(calc.a, calc.b)]
    /\ UNCHANGED <<rows, nextId, syncStatus, complete, pc, job, last, finalized, ops, hooks,
                   workers, uniqueIndex, tx, peer, watcher>>

NextMerge == Merge

SpecMerge == InitMerge /\ [][NextMerge]_vars

(***************************************************************************)
(* Content addressing on its own.  A JavaScript object is a sequence of    *)
(* <<key, value>> entries in insertion order; dag-cbor writes the entries  *)
(* of a map sorted by key (shorter keys first, then bytewise).             *)
(***************************************************************************)
MaxEncodeOps == 2

KeyOrder == <<"nonce", "owner", "balance">>

JsEntries == {<<k, v>> : k \in {"nonce", "owner", "balance"}, v \in {Num(0), Num(1)}}

JsObjects ==
    {obj \in UNION {[1..n -> JsEntries] : n \in 2..3} :
        \A i, j \in DOMAIN obj : obj[i][1] = obj[j][1] => i = j}

\* The entries of the object in the order of KeyOrder.
RECURSIVE SortByKey(_, _)
SortByKey(obj, i) ==
    IF i > Len(KeyOrder) THEN << >>
    ELSE SelectSeq(obj, LAMBDA e : e[1] = KeyOrder[i]) \o SortByKey(obj, i + 1)

\* Variant: the entries are written in insertion order.
encodeObjectInsertionOrder(obj) == encode(obj)

\* codec.encode(data) on an object.
encodeObject(obj) == encode(SortByKey(obj, 1))

\* bytes, hash and CID of prepareIPLDBlock.
Identify(obj) == [data |-> encodeObject(obj), cid |-> CID(encodeObject(obj))]

InitEncode ==
    /\ InitStore
    /\ uniqueIndex = FALSE
    /\ calc \in [fn : {"encode"}, a : JsObjects, b : JsObjects, out : {<<Null, Null>>}]

\* The first computation.
EncodeFirst ==
    /\ calc.fn = "encode"
    /\ calc' = [calc EXCEPT !.fn = "encodedFirst", !.out = <<Identify(calc.a), Null>>]
    /\ UNCHANGED <<rows, nextId, syncStatus, complete, pc, job, last, finalized, ops, hooks,
                   workers, uniqueIndex, tx, peer, watcher>>

\* The second computation, possibly on another store.
EncodeSecond ==
    /\ calc.fn = "encodedFirst"
    /\ calc' = [calc EXCEPT !.fn = "encoded", !.out = <<calc.out[1], Identify(calc.b)>>]
    /\ UNCHANGED <<rows, nextId, syncStatus, complete, pc, job, last, finalized, ops, hooks,
                   workers, uniqueIndex, tx, peer, watcher>>

NextEncode ==
    \/ EncodeFirst
    \/ EncodeSecond
    \/ /\ WithinBudget(MaxEncodeOps)
       /\ calc.fn = "encodedFirst"
       /\ CreateDiffStaged("c1", "b2", P1)
       /\ UNCHANGED calc

SpecEncode == InitEncode /\ [][NextEncode]_vars

(***************************************************************************)
(* The walk-through of the specification: an initial checkpoint at the     *)
(* first block, a staged diff at the second, finalization of the second    *)
(* block and a checkpoint job at the third.  Block heights 100, 105 and    *)
(* 110 are the heights 1, 2 and 3 of b1, b2 and b3, and the checkpoint     *)
(* interval 5 is ScenarioInterval.                                         *)
(***************************************************************************)
MaxScenarioOps == 4

P50 == MapV("state" :> MapV("balance" :> Num(50)))
ScenarioStates == {P50, P1}
ScenarioInterval == 1

NextScenario ==
    \/ /\ WithinBudget(MaxScenarioOps)
       /\ \/ \E c \in Contracts : CreateCheckpoint(c, "b1", InitialData, NoInterval, FALSE)
          \/ \E c \in Contracts, data \in ScenarioStates : CreateDiffStaged(c, "b2", data)
          \/ ProcessCanonicalBlock("b2")
          \/ \E c \in Contracts : CreateCheckpoint(c, "b3", NoData, ScenarioInterval, FALSE)
    \/ FinalizeCreateDiff
    \/ FinalizeRemoveStaged
    \/ CreateStateDiffHook
    \/ \E h \in {"b1", "b2", "b3"} : UpdateBlockProgress(h)
    \/ \E h \in {"b1", "b2", "b3"} : UpdateSyncStatusCanonicalBlock(h)

SpecScenario == Init /\ [][NextScenario]_vars

(***************************************************************************)
(* The chain position.  The Indexer forwards the three updates with their  *)
(* arguments unchanged; each update writes its own pair of fields when it  *)
(* is forced or the number does not go back.                               *)
(***************************************************************************)
MaxSyncOps == 4

updateSyncStatusIndexedBlock(sync, h, number, force) ==
    IF force \/ number >= sync.latestIndexedBlockNumber
    THEN [sync EXCEPT !.latestIndexedBlockHash = h, !.latestIndexedBlockNumber = number]
    ELSE sync

updateSyncStatusCanonicalBlock(sync, h, number, force) ==
    IF force \/ number >= sync.latestCanonicalBlockNumber
    THEN [sync EXCEPT !.latestCanonicalBlockHash = h, !.latestCanonicalBlockNumber = number]
    ELSE sync

updateSyncStatusChainHead(sync, h, number) ==
    IF number >= sync.chainHeadBlockNumber
    THEN [sync EXCEPT !.chainHeadBlockHash = h, !.chainHeadBlockNumber = number]
    ELSE sync

SetSyncStatus(sync) ==
    /\ pc = "idle"
    /\ syncStatus' = sync
    /\ ops' = ops + 1
    /\ UNCHANGED <<rows, nextId, complete, pc, job, last, finalized, hooks, workers, uniqueIndex, tx, calc, peer, watcher>>

SyncIndexedBlock(h, force) ==
    SetSyncStatus(updateSyncStatusIndexedBlock(syncStatus, h, blockNumber(h), force))

SyncCanonicalBlock(h, force) ==
    SetSyncStatus(updateSyncStatusCanonicalBlock(syncStatus, h, blockNumber(h), force))

SyncChainHead(h) ==
    SetSyncStatus(updateSyncStatusChainHead(syncStatus, h, blockNumber(h)))

NextSyncStatus ==
    /\ WithinBudget(MaxSyncOps)
    /\ \/ \E h \in BlockHashes, force \in BOOLEAN : SyncIndexedBlock(h, force)
       \/ \E h \in BlockHashes, force \in BOOLEAN : SyncCanonicalBlock(h, force)
       \/ \E h \in BlockHashes : SyncChainHead(h)

SpecSyncStatus == Init /\ [][NextSyncStatus]_vars

(***************************************************************************)
(* Diffs of contracts without an initial checkpoint, or whose latest       *)
(* checkpoint is at the block of the diff: checkpoints are seeded at b1    *)
(* or b2, diffs are staged at b2 and written at b1 or b2, b2 is finalized. *)
(***************************************************************************)
MaxRefusedOps == 4

RefusedBlocks == {"b1", "b2"}

NextRefused ==
    \/ /\ WithinBudget(MaxRefusedOps)
       /\ \/ \E c \in Contracts, h \in RefusedBlocks : CreateCheckpoint(c, h, InitialData, NoInterval, FALSE)
          \/ \E c \in Contracts : CreateDiffStaged(c, "b2", P1)
          \/ \E c \in Contracts, h \in RefusedBlocks : CreateDiff(c, h, P2)
          \/ ProcessCanonicalBlock("b2")
    \/ FinalizeCreateDiff
    \/ FinalizeRemoveStaged
    \/ CreateStateDiffHook

SpecRefused == Init /\ [][NextRefused]_vars

(***************************************************************************)
(* removeStagedIPLDBlocks among rows of every kind at every block number,  *)
(* with staging going on beside the transaction.                           *)
(***************************************************************************)
MaxRemoveOps == 4

NextRemove ==
    \/ /\ WithinBudget(MaxRemoveOps)
       /\ \/ \E h \in BlockHashes, data \in PartialStates : CreateDiffStaged("c1", h, data)
          \/ CreateCheckpoint("c1", "b1", InitialData, NoInterval, FALSE)
          \/ \E h \in StagingBlocks : CreateDiff("c1", h, P1)
          \/ \E h \in BlockHashes : TxBegin("removeStagedIPLDBlocks", blockNumber(h))
    \/ \E fails \in BOOLEAN : TxOperation(fails)
    \/ \E fails \in BOOLEAN : TxCommit(fails)
    \/ \E fails \in BOOLEAN : TxRollback(fails)
    \/ TxRelease

SpecRemove == Init /\ [][NextRemove]_vars

(***************************************************************************)
(* processCanonicalBlock step by step, the removal of the staged rows in   *)
(* its transaction, under the assumption that every awaited store call and *)
(* hook call comes back (weak fairness of every step of a call in          *)
(* progress).                                                              *)
(***************************************************************************)
MaxLiveOps == 3

\* finalizeDiffStaged, after the loop: removeStagedIPLDBlocks opens its
\* transaction.
FinalizeBeginRemove ==
    /\ pc = "finalizeDiffStaged"
    /\ job.todo = {}
    /\ pc' = "removeStagedIPLDBlocks"
    /\ tx' = [method |-> "removeStagedIPLDBlocks", number |-> blockNumber(job.blockHash),
              at |-> "operation", state |-> "active", released |-> 0, failed |-> "none",
              thrown |-> "none"]
    /\ UNCHANGED <<rows, nextId, syncStatus, complete, job, last, finalized, ops, hooks,
                   workers, uniqueIndex, calc, peer, watcher>>

\* Variant: finalizeDiffStaged goes on only after a removal that threw
\* nothing; after one that threw, the call never ends.
FinalizeEndRemoveOnSuccessOnly ==
    /\ pc = "removeStagedIPLDBlocks"
    /\ tx.at = "done"
    /\ tx.thrown = "none"
    /\ pc' = "createStateDiff"
    /\ finalized' = finalized \cup
          {<<s.blockHash, s.contractAddress>> : s \in
              {q \in job.stagedBlocks : HasDiff(rows, q.blockHash, q.contractAddress)}}
    /\ UNCHANGED <<rows, nextId, syncStatus, complete, job, last, ops, hooks, workers,
                   uniqueIndex, tx, calc, peer, watcher>>

\* removeStagedIPLDBlocks has left its finally block: finalizeDiffStaged
\* returns and processCanonicalBlock goes on to the hook, or the error
\* thrown by the removal ends processCanonicalBlock.
FinalizeEndRemove ==
    /\ pc = "removeStagedIPLDBlocks"
    /\ tx.at = "done"
    /\ IF tx.thrown = "none"
       THEN /\ pc' = "createStateDiff"
            /\ finalized' = finalized \cup
                  {<<s.blockHash, s.contractAddress>> : s \in
                      {q \in job.stagedBlocks : HasDiff(rows, q.blockHash, q.contractAddress)}}
            /\ UNCHANGED <<job, last>>
       ELSE /\ pc' = "idle"
            /\ job' = NoJob
            /\ last' = Call("processCanonicalBlock", NoHash, job.blockHash, NoData, NoInterval,
                            FALSE, FALSE, "errStore")
            /\ UNCHANGED finalized
    /\ UNCHANGED <<rows, nextId, syncStatus, complete, ops, hooks, workers, uniqueIndex, tx, calc, peer, watcher>>

NextLive ==
    \/ /\ WithinBudget(MaxLiveOps)
       /\ \/ \E c \in Contracts : CreateCheckpoint(c, "b1", InitialData, NoInterval, FALSE)
          \/ \E c \in Contracts : CreateDiffStaged(c, "b2", P1)
          \/ ProcessCanonicalBlock("b2")
    \/ FinalizeCreateDiff
    \/ FinalizeBeginRemove
    \/ \E fails \in BOOLEAN : TxOperation(fails)
    \/ \E fails \in BOOLEAN : TxCommit(fails)
    \/ \E fails \in BOOLEAN : TxRollback(fails)
    \/ TxRelease
    \/ FinalizeEndRemove
    \/ CreateStateDiffHook

FairnessLive ==
    /\ WF_vars(FinalizeCreateDiff)
    /\ WF_vars(FinalizeBeginRemove)
    /\ WF_vars(\E fails \in BOOLEAN : TxOperation(fails))
    /\ WF_vars(\E fails \in BOOLEAN : TxCommit(fails))
    /\ WF_vars(\E fails \in BOOLEAN : TxRollback(fails))
    /\ WF_vars(TxRelease)
    /\ WF_vars(FinalizeEndRemove)
    /\ WF_vars(CreateStateDiffHook)

SpecLive == Init /\ [][NextLive]_vars /\ FairnessLive

(***************************************************************************)
(* Peer: message handlers.                                                 *)
(***************************************************************************)
MaxRegs == 3
MaxMessages == 2

engineVars == <<rows, nextId, syncStatus, complete, pc, job, last, finalized, ops,
                hooks, workers, uniqueIndex, tx, calc>>

\* The number of entries of the sequence s that are equal to x.
Occurrences(s, x) == Cardinality({i \in 1..Len(s) : s[i] = x})

\* subscribeMessage(handler): the handler is pushed and a closure over it is
\* returned.
SubscribeMessage(handler) ==
    /\ Len(peer.regs) < MaxRegs
    /\ peer' = [peer EXCEPT !.messageHandlers = Append(@, handler),
                            !.regs = Append(@, [handler |-> handler, active |-> TRUE])]
    /\ UNCHANGED <<engineVars, watcher>>

\* The closure returned by the i-th subscribeMessage call is called: every
\* entry that is its handler is filtered out.
Unsubscribe(i) ==
    /\ i \in 1..Len(peer.regs)
    /\ LET handler == peer.regs[i].handler
           keep(registeredHandler) == registeredHandler # handler
       IN peer' = [peer EXCEPT !.messageHandlers = SelectSeq(@, keep),
                               !.regs[i].active = FALSE]
    /\ UNCHANGED <<engineVars, watcher>>

\* _handleStream, the sink: a message has come in on a stream and every
\* entry of _messageHandlers is called with it.
ReceiveMessage ==
    /\ peer.received < MaxMessages
    /\ peer' = [peer EXCEPT !.got = [h \in Handlers |-> Occurrences(peer.messageHandlers, h)],
                            !.received = @ + 1]
    /\ UNCHANGED <<engineVars, watcher>>

NextPeerMessages ==
    \/ \E handler \in Handlers : SubscribeMessage(handler)
    \/ \E i \in 1..MaxRegs : Unsubscribe(i)
    \/ ReceiveMessage

SpecPeerMessages == Init /\ [][NextPeerMessages]_vars

(***************************************************************************)
(* Peer: connections and streams.  The node holds up to MaxConns open      *)
(* connections to a remote peer; peer:connect and peer:disconnect carry    *)
(* the connection that was opened or closed.                               *)
(***************************************************************************)
MaxConns == 2

IsListed(p) == \E i \in 1..Len(peer.remotePeerIds) : peer.remotePeerIds[i] = p

\* peer:connect -> _handleConnect(connection)
HandleConnect(p) ==
    /\ peer.conns[p] < MaxConns
    /\ peer' = [peer EXCEPT !.conns[p] = @ + 1,
                            !.remotePeerIds = Append(@, p)]
    /\ UNCHANGED <<engineVars, watcher>>

\* peer:disconnect -> _handleDisconnect(connection)
HandleDisconnect(p) ==
    /\ peer.conns[p] > 0
    /\ LET keep(remotePeerId) == remotePeerId # p
       IN peer' = [peer EXCEPT !.conns[p] = @ - 1,
                               !.remotePeerIds = SelectSeq(@, keep)]
    /\ UNCHANGED <<engineVars, watcher>>

\* _handleStream(peerId, stream), from the protocol handler or after a dial:
\* the stream of the peer is put into _peerStreamMap.
HandleStream(p) ==
    /\ peer.conns[p] > 0
    /\ peer' = [peer EXCEPT !.peerStreamMap = @ \cup {p}]
    /\ UNCHANGED <<engineVars, watcher>>

\* peer:discovery -> _handleDiscovery -> _connectPeer: a peer that is not
\* listed is dialled; the dial opens a connection and a stream.
HandleDiscovery(p) ==
    /\ ~IsListed(p)
    /\ peer.conns[p] < MaxConns
    /\ peer' = [peer EXCEPT !.conns[p] = @ + 1,
                            !.remotePeerIds = Append(@, p),
                            !.peerStreamMap = @ \cup {p}]
    /\ UNCHANGED <<engineVars, watcher>>

\* broadcastMessage(message): the message is pushed to every stream of the map.
BroadcastMessage ==
    /\ peer' = [peer EXCEPT !.pushed = peer.peerStreamMap]
    /\ UNCHANGED <<engineVars, watcher>>

NextPeerConnections ==
    \/ \E p \in RemotePeers : HandleConnect(p)
    \/ \E p \in RemotePeers : HandleDisconnect(p)
    \/ \E p \in RemotePeers : HandleStream(p)
    \/ \E p \in RemotePeers : HandleDiscovery(p)
    \/ BroadcastMessage

SpecPeerConnections == Init /\ [][NextPeerConnections]_vars

(***************************************************************************)
(* ERC20 watcher: getEvents of one (blockHash, token) pair, called by      *)
(* several requests whose awaits interleave.                               *)
(***************************************************************************)
MaxGetEvents == 3

SetAt(g, at) == [watcher EXCEPT !.at[g] = at]

\* getEvents: didSyncEvents is read.
GetEvents(g) ==
    /\ watcher.at[g] \in {"idle", "done", "failed"}
    /\ watcher.calls < MaxGetEvents
    /\ watcher' = [watcher EXCEPT !.calls = @ + 1,
                                  !.at[g] = IF watcher.didSyncEvents THEN "assert" ELSE "fetch"]
    /\ UNCHANGED <<engineVars, peer>>

\* _fetchAndSaveEvents: the logs are fetched from upstream.
FetchEvents(g) ==
    /\ watcher.at[g] = "fetch"
    /\ watcher' = [watcher EXCEPT !.fetched = @ + 1, !.at[g] = "save"]
    /\ UNCHANGED <<engineVars, peer>>

\* _fetchAndSaveEvents: saveEvents writes the events and the sync progress
\* of the pair; a store that allows one progress row per pair rejects the
\* save of a pair that is synced already.
SaveEvents(g, rejectsSecond) ==
    /\ watcher.at[g] = "save"
    /\ watcher' = IF watcher.didSyncEvents /\ rejectsSecond
                  THEN SetAt(g, "failed")
                  ELSE [watcher EXCEPT !.saved = @ + 1, !.didSyncEvents = TRUE,
                                       !.at[g] = "assert"]
    /\ UNCHANGED <<engineVars, peer>>

\* getEvents: assert(didSyncEvents), then the events are read and returned.
ReturnEvents(g) ==
    /\ watcher.at[g] = "assert"
    /\ watcher' = SetAt(g, IF watcher.didSyncEvents THEN "done" ELSE "failed")
    /\ UNCHANGED <<engineVars, peer>>

NextWatcher ==
    \/ \E g \in Callers : GetEvents(g)
    \/ \E g \in Callers : FetchEvents(g)
    \/ \E g \in Callers, rejectsSecond \in BOOLEAN : SaveEvents(g, rejectsSecond)
    \/ \E g \in Callers : ReturnEvents(g)

SpecWatcher == Init /\ [][NextWatcher]_vars

TypeOK ==
    /\ pc \in {"idle", "finalizeDiffStaged", "removeStagedIPLDBlocks", "createStateDiff"}
    /\ ops \in 0..Max(Max(MaxOps, MaxCheckpointOps), Max(Max(MaxWorkerCalls, MaxJobs), Max(Max(MaxTx, MaxFailureOps), Max(MaxEncodeOps, Max(MaxScenarioOps, Max(MaxSyncOps, Max(MaxRefusedOps, Max(MaxRemoveOps, MaxLiveOps))))))))
    /\ \A r \in rows : r.id < nextId

(***************************************************************************)
(* Properties.                                                             *)
(***************************************************************************)
StateOf(r) == decode(r.data).v["state"]
ParentOf(r) == decode(r.data).v["meta"].v["parent"].v["/"]

SameKey(r, q) ==
    /\ r.blockHash = q.blockHash
    /\ r.contractAddress = q.contractAddress
    /\ r.kind = q.kind

NoStagedAt(rs, number) ==
    ~\E r \in rs : r.kind = "diff_staged" /\ blockNumber(r.blockHash) = number

StrictParent(rs, c, h) ==
    LET below == {r \in rs : /\ r.contractAddress = c
                             /\ blockNumber(r.blockHash) < blockNumber(h)}
        latest == {r \in below : \A q \in below :
                      \/ blockNumber(r.blockHash) > blockNumber(q.blockHash)
                      \/ /\ blockNumber(r.blockHash) = blockNumber(q.blockHash)
                         /\ r.id >= q.id}
    IN IF latest = {} THEN Null ELSE (CHOOSE r \in latest : TRUE).cid

\* C7: every StateBlock that is created gets as meta.parent the identifier
\* of the most recent StateBlock of its contract at a block number strictly
\* below its own, or null when there is none.
C7_ParentStrictlyBelow ==
    [][\A r \in rows' : r.id >= nextId =>
          ParentOf(r) = StrictParent(rows, r.contractAddress, r.blockHash)]_vars

\* C8: once a (block, contract) pair has been finalized, no diff_staged row
\* exists for it again.
C8_FinalizedIsTerminal ==
    \A p \in finalized : getIPLDBlocks(rows, p[1], p[2], "diff_staged") = {}

\* C9: a createDiffStaged call that repeats the previous successful call
\* (same block, contract and partial state) succeeds and leaves the single
\* diff_staged row of that (block, contract) as it was: same state, same
\* identifier.
C9_StagingIdempotent ==
    [][(ops' = ops + 1 /\ last'.op = "createDiffStaged" /\ last'.repeated) =>
         LET before == getIPLDBlocks(rows, last'.blockHash, last'.contractAddress, "diff_staged")
             after == getIPLDBlocks(rows', last'.blockHash, last'.contractAddress, "diff_staged")
         IN /\ last'.ret = "ok"
            /\ Cardinality(after) = 1
            /\ \A a \in after : \E b \in before :
                  StateOf(a) = StateOf(b) /\ a.cid = b.cid]_vars

\* A repeated createDiffStaged call has completed on a row that an earlier,
\* different update had already been merged into.
C9_Witness ==
    /\ pc = "idle"
    /\ last.op = "createDiffStaged" /\ last.repeated /\ last.ret = "ok"
    /\ \E r \in getIPLDBlocks(rows, last.blockHash, last.contractAddress, "diff_staged") :
          StateOf(r) # last.data.v["state"]

\* C10: while finalizeDiffStaged(B) runs, a reader of the store sees either
\* the state before (no staged row of B promoted yet) or the state after
\* (every staged row promoted, no diff_staged row left at B's number).
C10_AtomicFinalization ==
    pc = "finalizeDiffStaged" =>
        \/ job.todo = job.stagedBlocks
        \/ job.todo = {} /\ NoStagedAt(rows, blockNumber(job.blockHash))

(***************************************************************************)
(* Checkpoint compaction.                                                  *)
(***************************************************************************)
IsCheckpointCall(call) == ops' = ops + 1 /\ call.op = "createCheckpoint"

CheckpointsUpTo(rs, c, number) ==
    {r \in rs : /\ r.contractAddress = c /\ r.kind = "checkpoint"
                /\ blockNumber(r.blockHash) <= number}

\* The contract's latest checkpoint at or below a block number.
LatestCheckpoint(rs, c, number) ==
    CHOOSE r \in CheckpointsUpTo(rs, c, number) :
        \A q \in CheckpointsUpTo(rs, c, number) :
            \/ blockNumber(r.blockHash) > blockNumber(q.blockHash)
            \/ /\ blockNumber(r.blockHash) = blockNumber(q.blockHash)
               /\ r.id >= q.id

DiffsAt(rs, c, number) ==
    {r \in rs : /\ r.contractAddress = c /\ r.kind = "diff"
                /\ blockNumber(r.blockHash) = number}

TopBlockNumber == CHOOSE n \in {blockNumber(h) : h \in BlockHashes} :
                      \A h \in BlockHashes : blockNumber(h) <= n

\* merge(...merge(merge(state, D(number)), D(number + 1))..., D(top)).
RECURSIVE MergeAscending(_, _, _, _)
MergeAscending(rs, c, state, number) ==
    IF number > TopBlockNumber THEN state
    ELSE MergeAscending(rs, c,
             IF DiffsAt(rs, c, number) = {} THEN state
             ELSE MergeValue(state, StateOf(CHOOSE d \in DiffsAt(rs, c, number) : TRUE)),
             number + 1)

\* C4: a createCheckpoint call without explicit data that passes the gates
\* and is not handled by the hook leaves at the target block a checkpoint
\* whose state is the state S0 of the contract's latest checkpoint merged
\* with the diffs above it, in ascending block-number order.
C4_CheckpointIsMergeOfDiffs ==
    [][(/\ IsCheckpointCall(last')
        /\ last'.data = NoData /\ ~last'.disableDefault
        /\ last'.ret \in BlockHashes
        /\ \A n \in 1..TopBlockNumber :
              Cardinality(DiffsAt(rows, last'.contractAddress, n)) <= 1) =>
         LET c == last'.contractAddress
             cp0 == LatestCheckpoint(rows, c, blockNumber(last'.ret))
         IN \E r \in getIPLDBlocks(rows', last'.ret, c, "checkpoint") :
               StateOf(r) = MergeAscending(rows, c, StateOf(cp0),
                                           blockNumber(cp0.blockHash) + 1)]_vars

\* C5 as stated: every createCheckpoint call on a block above the latest
\* canonical block number fails and changes nothing.
C5_FailsAboveCanonical ==
    [][(/\ IsCheckpointCall(last')
        /\ last'.blockHash \in BlockHashes
        /\ blockNumber(last'.blockHash) > syncStatus.latestCanonicalBlockNumber) =>
         IsError(last'.ret) /\ rows' = rows]_vars

\* C5, amended: every createCheckpoint call without explicit data on a block
\* above the latest canonical block number fails and changes nothing.
C5_NoDataFailsAboveCanonical ==
    [][(/\ IsCheckpointCall(last')
        /\ last'.data = NoData
        /\ last'.blockHash \in BlockHashes
        /\ blockNumber(last'.blockHash) > syncStatus.latestCanonicalBlockNumber) =>
         IsError(last'.ret) /\ rows' = rows]_vars

\* A call without explicit data on a complete block failed on the pruned
\* region check.
C5_Witness ==
    /\ last.op = "createCheckpoint" /\ last.data = NoData
    /\ last.ret = "errNotPruned"
    /\ last.blockHash \in BlockHashes
    /\ blockNumber(last.blockHash) > syncStatus.latestCanonicalBlockNumber

\* C6: a createCheckpoint call without explicit data, with an interval I and
\* all preconditions met, on target block number Nt with the latest
\* checkpoint at Nc: if Nt - Nc < I it returns none and leaves the store as
\* it was; if Nt - Nc >= I it is not stopped (it returns the target hash).
C6_IntervalGate ==
    [][(/\ IsCheckpointCall(last')
        /\ last'.data = NoData
        /\ last'.checkpointInterval # NoInterval
        /\ ~IsError(last'.ret)) =>
         LET h == IF last'.blockHash # NoHash THEN last'.blockHash
                  ELSE syncStatus.latestCanonicalBlockHash
             Nt == blockNumber(h)
             Nc == blockNumber(LatestCheckpoint(rows, last'.contractAddress, Nt).blockHash)
         IN /\ (Nt - Nc < last'.checkpointInterval) => (last'.ret = "none" /\ rows' = rows)
            /\ (Nt - Nc >= last'.checkpointInterval) => last'.ret = h]_vars

\* The interval gate has stopped a call: a checkpoint exists one block below
\* the target and the interval is larger.
C6_Witness ==
    /\ last.op = "createCheckpoint" /\ last.data = NoData
    /\ last.checkpointInterval # NoInterval
    /\ last.ret = "none"
    /\ last.blockHash \in BlockHashes
    /\ CheckpointsUpTo(rows, last.contractAddress, blockNumber(last.blockHash)) # {}

(***************************************************************************)
(* Concurrent staging.                                                     *)
(***************************************************************************)
\* C11: when a worker that found no diff_staged row for its (block,
\* contract) saves after another worker has inserted that row, the key ends
\* with at most one diff_staged row exactly when the store has the unique
\* index and rejects the duplicate; without it two rows result.
C11_UniqueOnlyByStoreConstraint ==
    [][\A w \in Workers :
          LET e == workers[w].entity
          IN (/\ workers[w].pc = "prepared" /\ workers'[w].pc = "idle"
              /\ ~workers[w].sawRow
              /\ Cardinality(getIPLDBlocks(rows, e.blockHash, e.contractAddress, "diff_staged")) = 1) =>
                /\ Cardinality(getIPLDBlocks(rows', e.blockHash, e.contractAddress, "diff_staged")) <= 1
                      <=> uniqueIndex
                /\ last'.ret = "errDuplicateKey" <=> uniqueIndex]_vars

\* Both workers passed the read-then-assert check with no row present, both
\* saved, and the store without the index holds two diff_staged rows of one
\* (block, contract).
C11_Witness ==
    /\ ~uniqueIndex
    /\ \A w \in Workers : workers[w].pc = "idle"
    /\ last.op = "createDiffStaged" /\ last.ret = "ok"
    /\ Cardinality(getIPLDBlocks(rows, last.blockHash, last.contractAddress, "diff_staged")) = 2

TargetOf(call) ==
    IF call.blockHash # NoHash THEN call.blockHash ELSE syncStatus.latestCanonicalBlockHash

\* C14: a createCheckpoint call without explicit data on a block that is not
\* marked complete fails and changes nothing, whatever the interval, the
\* hook and the chain position are.
C14_FailsOnIncompleteBlock ==
    [][(/\ IsCheckpointCall(last')
        /\ last'.data = NoData
        /\ TargetOf(last') \in BlockHashes
        /\ TargetOf(last') \notin complete) =>
         IsError(last'.ret) /\ rows' = rows]_vars

\* A call failed on the completeness check alone: its target is in the
\* pruned region and the contract has a checkpoint at or below it.
C14_Witness ==
    /\ last.op = "createCheckpoint" /\ last.data = NoData
    /\ last.ret = "errNotComplete"
    /\ last.blockHash \in BlockHashes
    /\ blockNumber(last.blockHash) <= syncStatus.latestCanonicalBlockNumber
    /\ CheckpointsUpTo(rows, last.contractAddress, blockNumber(last.blockHash)) # {}

\* C15: a createCheckpoint call without explicit data fails and changes
\* nothing when the contract has no checkpoint row at or below the target
\* block number, checkpoints at higher block numbers notwithstanding.
C15_FailsWithoutCheckpointBelow ==
    [][(/\ IsCheckpointCall(last')
        /\ last'.data = NoData
        /\ TargetOf(last') \in BlockHashes
        /\ CheckpointsUpTo(rows, last'.contractAddress, blockNumber(TargetOf(last'))) = {}) =>
         IsError(last'.ret) /\ rows' = rows]_vars

\* A call on a complete block of the pruned region failed for want of a
\* checkpoint while the contract's only checkpoints sit at higher blocks.
C15_Witness ==
    /\ last.op = "createCheckpoint" /\ last.data = NoData
    /\ last.ret = "errNoCheckpoint"
    /\ last.blockHash \in BlockHashes
    /\ \E r \in rows : /\ r.contractAddress = last.contractAddress
                       /\ r.kind = "checkpoint"
                       /\ blockNumber(r.blockHash) > blockNumber(last.blockHash)

\* C16: a createCheckpoint call with explicit data returns none and leaves
\* at the target block a checkpoint row whose state is the explicit data's
\* state, whatever rows the contract already has.
C16_ExplicitDataNotMerged ==
    [][(/\ IsCheckpointCall(last')
        /\ last'.data # NoData
        /\ TargetOf(last') \in BlockHashes) =>
         /\ last'.ret = "none"
         /\ \E r \in getIPLDBlocks(rows', TargetOf(last'), last'.contractAddress, "checkpoint") :
               StateOf(r) = last'.data.v["state"]]_vars

\* C17: a createCheckpoint call whose createStateCheckpoint hook was invoked
\* and reported the checkpoint as handled returns the target block's hash
\* and leaves the store as it was.
C17_HandledByHook ==
    [][(/\ IsCheckpointCall(last')
        /\ hooks'.calls = 1 /\ ~hooks'.throws
        /\ last'.disableDefault) =>
         /\ last'.ret = TargetOf(last')
         /\ rows' = rows]_vars

\* The hook handled a checkpoint for a contract that has a diff above its
\* latest checkpoint, which the default compaction would have folded in.
C17_Witness ==
    /\ last.op = "createCheckpoint" /\ last.disableDefault
    /\ hooks.calls = 1
    /\ last.ret \in BlockHashes
    /\ \E d \in rows : /\ d.contractAddress = last.contractAddress /\ d.kind = "diff"
                       /\ blockNumber(d.blockHash) <= blockNumber(last.ret)
                       /\ getIPLDBlocks(rows, last.ret, last.contractAddress, "checkpoint") = {}

\* C18: a createCheckpoint call without a blockHash works on the block of
\* SyncStatus.latestCanonicalBlockHash: it fails when there is none, the
\* hash it returns is that hash, and every row it writes is a checkpoint at
\* that block.
C18_DefaultTargetIsCanonical ==
    [][(IsCheckpointCall(last') /\ last'.blockHash = NoHash) =>
         /\ syncStatus.latestCanonicalBlockHash \notin BlockHashes => IsError(last'.ret)
         /\ last'.ret \in BlockHashes => last'.ret = syncStatus.latestCanonicalBlockHash
         /\ \A r \in (rows' \ rows) \cup (rows \ rows') :
               /\ r.blockHash = syncStatus.latestCanonicalBlockHash
               /\ r.contractAddress = last'.contractAddress
               /\ r.kind = "checkpoint"]_vars

\* A call without blockHash and without data compacted into a checkpoint at
\* the latest canonical block, which is not the first block.
C18_Witness ==
    /\ last.op = "createCheckpoint" /\ last.blockHash = NoHash /\ last.data = NoData
    /\ last.ret = syncStatus.latestCanonicalBlockHash
    /\ last.ret \in BlockHashes
    /\ blockNumber(last.ret) > 1
    /\ getIPLDBlocks(rows, last.ret, last.contractAddress, "checkpoint") # {}

(***************************************************************************)
(* Failures of the content store and of contract-specific hooks.           *)
(***************************************************************************)
\* C19: when processCLICheckpoint fails on the push to IPFS, the checkpoint
\* its createCheckpoint call produced is still in the store: the rows are
\* those createCheckpoint left, and a checkpoint row of (target block,
\* contract) exists.
C19_PushFailureKeepsCheckpoint ==
    [][(/\ ops' = ops + 1 /\ pc' = "idle"
        /\ last'.op = "processCLICheckpoint"
        /\ last'.ret = "errPush") =>
         LET c == last'.contractAddress
             made == createCheckpoint(rows, nextId, syncStatus, complete, c, last'.blockHash,
                                      NoData, NoInterval, last'.disableDefault, FALSE)
         IN /\ rows' = made.rows
            /\ getIPLDBlocks(rows', TargetOf(last'), c, "checkpoint") # {}]_vars

\* A CLI checkpoint call created a checkpoint row that was not there before
\* and then failed on the push.
C19_Witness ==
    /\ last.op = "processCLICheckpoint" /\ last.ret = "errPush"
    /\ \E r \in rows : /\ r.kind = "checkpoint"
                       /\ r.contractAddress = last.contractAddress
                       /\ r.id = nextId - 1
                       /\ blockNumber(r.blockHash) > 1

\* C20: whenever a contract-specific hook is invoked and throws, the engine
\* call that invoked it ends right there with the hook's failure: it has
\* called the hook once and returns that failure to its caller.
C20_HookFailurePropagates ==
    [][(hooks'.throws /\ hooks'.calls >= 1 /\ hooks' # hooks) =>
         /\ last'.ret = "errHook"
         /\ hooks'.calls = 1
         /\ pc' = "idle"]_vars

\* processCheckpoint was stopped by a throwing createStateCheckpoint hook of
\* the first contract, with the second contract due for a checkpoint too.
C20_Witness ==
    /\ last.op = "processCheckpoint" /\ last.ret = "errHook"
    /\ hooks.throws /\ hooks.calls = 1
    /\ \A c \in Contracts : \E r \in rows : r.contractAddress = c /\ r.kind = "checkpoint"

C22_FailedFinalizationLeavesNothing ==
    [][(pc = "finalizeDiffStaged" /\ pc' = "idle" /\ last'.ret = "errStore") =>
         /\ job.stagedBlocks \subseteq rows'
         /\ \A r \in rows' : r.kind = "diff" => r \in job.rowsBefore]_vars

(***************************************************************************)
(* The merge and the content addressing as functions.                      *)
(***************************************************************************)
IsScalarOrArray(v) == v.t \in {"num", "str", "arr"}

\* C23: in merge(old, new), every key whose new value is a scalar or an
\* array ends with exactly the new value (an array replaces the old one as
\* a whole), and a key whose new value is a map is merged key by key.
C23_MergeOverwritesScalarsAndArrays ==
    calc.fn = "merged" =>
        \A k \in DOMAIN calc.b.v :
            /\ IsScalarOrArray(calc.b.v[k]) => calc.out.v[k] = calc.b.v[k]
            /\ calc.b.v[k].t = "map" =>
                  \A j \in DOMAIN calc.b.v[k].v : calc.out.v[k].v[j] = calc.b.v[k].v[j]

\* Two objects are structurally equal: the same keys with the same values,
\* in whatever order they were inserted.
StructurallyEqual(x, y) ==
    {x[i] : i \in DOMAIN x} = {y[i] : i \in DOMAIN y}

Shape(rs, c) ==
    {<<r.kind, r.blockHash, StateOf(r)>> : r \in {q \in rs : q.contractAddress = c}}

ScenarioSeed == <<"checkpoint", "b1", InitialData.v["state"]>>

\* C26: (a) when processCanonicalBlock(b2) completes and contract c1 had,
\* when it started, exactly an initial checkpoint {balance:0} at b1 and a
\* staged diff {balance:50} at b2, then c1 has the checkpoint and a diff
\* {balance:50} at b2 and no staged row; (b) createCheckpoint(c1, b3, none,
\* interval) called in that state with b3 complete and canonical returns b3
\* and adds a checkpoint at b3 with state {balance:50}.
C26_Scenario ==
    [][/\ (/\ pc = "createStateDiff" /\ pc' = "idle" /\ job.blockHash = "b2"
           /\ Shape(job.rowsBefore, "c1") =
                 {ScenarioSeed, <<"diff_staged", "b2", P50.v["state"]>>}
           /\ last'.ret = "ok")
          => Shape(rows', "c1") = {ScenarioSeed, <<"diff", "b2", P50.v["state"]>>}
       /\ (/\ ops' = ops + 1 /\ pc' = "idle"
           /\ last'.op = "createCheckpoint" /\ last'.contractAddress = "c1"
           /\ last'.blockHash = "b3" /\ last'.data = NoData
           /\ Shape(rows, "c1") = {ScenarioSeed, <<"diff", "b2", P50.v["state"]>>}
           /\ "b3" \in complete
           /\ syncStatus.latestCanonicalBlockNumber >= blockNumber("b3"))
          => /\ last'.ret = "b3"
             /\ Shape(rows', "c1") = {ScenarioSeed, <<"diff", "b2", P50.v["state"]>>,
                                      <<"checkpoint", "b3", P50.v["state"]>>}]_vars

\* C26 witness: the whole walk-through has run: the checkpoint job at b3
\* returned b3 and the store holds the seed, the diff and the new checkpoint.
C26_Witness ==
    /\ pc = "idle"
    /\ last.op = "createCheckpoint" /\ last.blockHash = "b3" /\ last.ret = "b3"
    /\ last.contractAddress = "c1"
    /\ <<"b2", "c1">> \in finalized
    /\ Shape(rows, "c1") = {ScenarioSeed, <<"diff", "b2", P50.v["state"]>>,
                            <<"checkpoint", "b3", P50.v["state"]>>}

RECURSIVE MergeUpTo(_, _, _, _, _)
MergeUpTo(rs, c, state, number, top) ==
    IF number > top THEN state
    ELSE MergeUpTo(rs, c,
             IF DiffsAt(rs, c, number) = {} THEN state
             ELSE MergeValue(state, StateOf(CHOOSE d \in DiffsAt(rs, c, number) : TRUE)),
             number + 1, top)

\* C28: a checkpoint created by default compaction at a target block that
\* held no checkpoint row has the state of the latest checkpoint at or below
\* the target merged with the diffs up to the target's block number only: no
\* diff above the target's block number has an effect on it.
C28_NoDiffAboveTarget ==
    [][(/\ IsCheckpointCall(last') /\ pc' = "idle"
        /\ last'.data = NoData /\ ~last'.disableDefault
        /\ last'.ret \in BlockHashes
        /\ getIPLDBlocks(rows, last'.ret, last'.contractAddress, "checkpoint") = {}
        /\ \A n \in 1..TopBlockNumber :
              Cardinality(DiffsAt(rows, last'.contractAddress, n)) <= 1) =>
         LET c == last'.contractAddress
             cp0 == LatestCheckpoint(rows, c, blockNumber(last'.ret))
         IN \A r \in getIPLDBlocks(rows', last'.ret, c, "checkpoint") :
               StateOf(r) = MergeUpTo(rows, c, StateOf(cp0), blockNumber(cp0.blockHash) + 1,
                                      blockNumber(last'.ret))]_vars

\* The diff_staged rows of rs that are no longer rows of rsAfter.
DeletedStaged(rs, rsAfter) ==
    {r \in rs : r.kind = "diff_staged" /\ ~\E q \in rsAfter : q.id = r.id}

\* state contains part: merging part into state changes nothing.
Contains(state, part) == MergeValue(state, part) = state

\* C29: whenever a step deletes a diff_staged row of (blockHash, contract),
\* the store it leaves has a diff row of the same (blockHash, contract)
\* whose state contains the staged state.
C29_NoStagedUpdateLost ==
    [][\A s \in DeletedStaged(rows, rows') :
          \E d \in getIPLDBlocks(rows', s.blockHash, s.contractAddress, "diff") :
              Contains(StateOf(d), StateOf(s))]_vars

\* C30: whenever no call is in progress, every non-null meta.parent of a
\* stored diff or checkpoint row is the identifier of a row of the store.
C30_ParentResolvable ==
    pc = "idle" =>
        \A r \in rows : (r.kind \in {"diff", "checkpoint"} /\ ParentOf(r) # Null) =>
            \E q \in rows : q.cid = ParentOf(r)

\* C31: a createDiffStaged of a worker that had read an existing staged row
\* leaves that row with the state stored right before its save merged with
\* the worker's partial state: no update that another worker saved since the
\* read is overwritten.
C31_ConcurrentStagingKeepsUpdates ==
    [][\A w \in Workers :
          LET e == workers[w].entity
          IN (/\ workers[w].pc = "prepared" /\ workers'[w].pc = "idle"
              /\ workers[w].sawRow /\ last'.ret = "ok") =>
                \A r \in rows : r.id = e.id =>
                    \E q \in rows' :
                        /\ q.id = r.id
                        /\ StateOf(q) = MergeValue(StateOf(r), workers[w].data.v["state"])]_vars

\* Contract c has no checkpoint row at all, or its latest checkpoint is at
\* block h.
NoCheckpointOrAtBlock(rs, c, h) ==
    \/ CheckpointsUpTo(rs, c, TopBlockNumber) = {}
    \/ LatestCheckpoint(rs, c, TopBlockNumber).blockHash = h

\* C32: createDiff for a contract that has no checkpoint, or whose latest
\* checkpoint is at the block of the diff, fails and leaves the store as it
\* was; a finalization of a block that had a staged row of such a contract
\* never gets to the removal of the staged rows: it ends with an error and
\* every diff_staged row that was there when it started is still there.
C32_DiffRefusedWithoutCheckpoint ==
    [][/\ (/\ ops' = ops + 1 /\ pc' = "idle" /\ last'.op = "createDiff"
           /\ NoCheckpointOrAtBlock(rows, last'.contractAddress, last'.blockHash))
          => (IsError(last'.ret) /\ rows' = rows)
       /\ (/\ pc = "finalizeDiffStaged" /\ pc' # pc
           /\ \E s \in job.stagedBlocks :
                 NoCheckpointOrAtBlock(job.rowsBefore, s.contractAddress, s.blockHash))
          => /\ pc' = "idle"
             /\ IsError(last'.ret)
             /\ DeletedStaged(job.rowsBefore, rows') = {}]_vars

\* C32 witness: a finalization of b2 failed because the latest checkpoint of
\* a staged contract is at b2, and the staged row is still in the store.
C32_Witness ==
    /\ pc = "idle"
    /\ last.op = "processCanonicalBlock" /\ last.ret = "errCheckpointAtBlock"
    /\ \E r \in rows : r.kind = "diff_staged" /\ r.blockHash = "b2"

\* What processCheckpoint is to do for one watched contract, as the rows of
\* the contract it leaves and the number of hook calls it makes: nothing for
\* a contract with the flag off; the initial checkpoint hook at the
\* contract's starting block, else nothing, for a contract without a
\* checkpoint; createCheckpoint with the interval otherwise.
ExpectedFor(contract, h, interval, disableDefault) ==
    LET c == contract.address
        none == Result(rows, nextId, "ok")
    IN IF ~contract.checkpoint THEN none
       ELSE IF CheckpointsUpTo(rows, c, TopBlockNumber) = {}
       THEN IF blockNumber(h) = contract.startingBlock
            THEN Hooked(createCheckpoint(rows, nextId, syncStatus, complete, c, h, InitialData,
                                         NoInterval, FALSE, FALSE))
            ELSE none
       ELSE createCheckpoint(rows, nextId, syncStatus, complete, c, h, NoData, interval,
                             disableDefault, FALSE)

Watched == {WatchedContracts[i] : i \in 1..Len(WatchedContracts)}

\* C33: a processCheckpoint call with an interval <= 0 changes nothing and
\* calls no hook; a call that returns leaves, for every watched contract,
\* the rows that its case prescribes (flag off: untouched; no checkpoint:
\* the initial checkpoint hook at the starting block only; else
\* createCheckpoint with the configured interval) and has called the hooks
\* of these cases and no other.
C33_ProcessCheckpointCases ==
    [][(ops' = ops + 1 /\ pc' = "idle" /\ last'.op = "processCheckpoint") =>
         LET h == last'.blockHash
             interval == last'.checkpointInterval
         IN /\ interval <= 0 => (rows' = rows /\ hooks'.calls = 0 /\ last'.ret = "ok")
            /\ \A contract \in Watched :
                  ~contract.checkpoint => Shape(rows', contract.address) = Shape(rows, contract.address)
            /\ (interval > 0 /\ last'.ret = "ok") =>
                  /\ \A contract \in Watched :
                        Shape(rows', contract.address) =
                           Shape(ExpectedFor(contract, h, interval, last'.disableDefault).rows,
                                 contract.address)
                  /\ hooks'.calls = Cardinality({contract \in Watched :
                        ExpectedFor(contract, h, interval, last'.disableDefault).hookCalls > 0})]_vars

\* C33 witness: a processCheckpoint job for b2 returned after it created a
\* checkpoint for c1, which had one at b1, and the initial checkpoint of c2,
\* whose starting block is b2's number; c3, with the flag off, has no row.
C33_Witness ==
    /\ pc = "idle"
    /\ last.op = "processCheckpoint" /\ last.blockHash = "b2" /\ last.ret = "ok"
    /\ last.checkpointInterval > 0
    /\ getIPLDBlocks(rows, "b1", "c1", "checkpoint") # {}
    /\ getIPLDBlocks(rows, "b2", "c1", "checkpoint") # {}
    /\ getIPLDBlocks(rows, "b2", "c2", "checkpoint") # {}
    /\ Shape(rows, "c3") = {}

\* The rows of rs whose row id is no longer in rsAfter.
DeletedRows(rs, rsAfter) == {r \in rs : ~\E q \in rsAfter : q.id = r.id}

StagedAt(r, number) == r.kind = "diff_staged" /\ blockNumber(r.blockHash) = number

\* C34: the commit of removeStagedIPLDBlocks(blockNumber) removes the
\* diff_staged rows at that block number and leaves every other row as it was;
\* no other step of the method removes or changes a row, so a removal whose
\* deletion or commit fails removes nothing; and no row is ever removed
\* otherwise.
C34_RemoveStagedExactly ==
    [][/\ (tx.method = "removeStagedIPLDBlocks" /\ tx' # tx /\ tx'.state = "committed"
           /\ tx.state # "committed") =>
             /\ \A r \in rows : StagedAt(r, tx.number) <=> r \notin rows'
             /\ rows' \subseteq rows
       /\ (tx.method = "removeStagedIPLDBlocks" /\ tx' # tx /\ tx'.at # "operation"
           /\ ~(tx.state # "committed" /\ tx'.state = "committed")) => rows' = rows
       /\ DeletedRows(rows, rows') # {} =>
             (tx.method = "removeStagedIPLDBlocks" /\ tx.failed = "none"
              /\ tx'.state = "committed")]_vars

\* C34 witness: a removal at block number 2 has committed and took a row
\* away; no staged row is left at that number, a staged row at another
\* number and a checkpoint are still there.
C34_Witness ==
    /\ tx.method = "removeStagedIPLDBlocks" /\ tx.at = "done" /\ tx.state = "committed"
    /\ tx.number = 2
    /\ \E id \in 1..(nextId - 1) : ~\E r \in rows : r.id = id
    /\ \E r \in rows : r.kind = "diff_staged" /\ blockNumber(r.blockHash) # 2
    /\ \E r \in rows : r.kind = "checkpoint"
    /\ NoStagedAt(rows, 2)

\* C35: a createCheckpoint call without explicit data invokes the state
\* checkpoint hook only when the target block is complete, lies at or below
\* the latest canonical block, the contract has a checkpoint at or below the
\* target and the interval, if one is given, has elapsed since it; a call
\* that fails a precondition or is skipped by the interval invokes no hook.
C35_HookAfterChecks ==
    [][(IsCheckpointCall(last') /\ pc' = "idle" /\ last'.data = NoData) =>
         LET h == TargetOf(last')
             c == last'.contractAddress
             I == last'.checkpointInterval
         IN /\ hooks'.calls > 0 =>
                  /\ h \in complete
                  /\ blockNumber(h) <= syncStatus.latestCanonicalBlockNumber
                  /\ CheckpointsUpTo(rows, c, blockNumber(h)) # {}
                  /\ I # NoInterval =>
                        blockNumber(h) - blockNumber(LatestCheckpoint(rows, c, blockNumber(h)).blockHash) >= I
            /\ last'.ret \in {"errNoBlock", "errNotComplete", "errNotPruned",
                               "errNoCheckpoint", "none"} => hooks'.calls = 0]_vars

\* C35 witness: a call that met every precondition was skipped by the
\* interval gate and invoked no hook.
C35_Witness ==
    /\ pc = "idle"
    /\ last.op = "createCheckpoint" /\ last.data = NoData /\ last.ret = "none"
    /\ last.checkpointInterval # NoInterval
    /\ last.blockHash \in complete
    /\ blockNumber(last.blockHash) <= syncStatus.latestCanonicalBlockNumber
    /\ CheckpointsUpTo(rows, last.contractAddress, blockNumber(last.blockHash)) # {}
    /\ hooks.calls = 0

PreconditionErrors == {"errNoBlock", "errNotComplete", "errNotPruned", "errNoCheckpoint"}

\* C36: a createCheckpoint call that fails on a precondition (no target
\* block, target not complete, target above the latest canonical block, no
\* checkpoint at or below the target) leaves the store exactly as it was.
C36_FailedCheckpointChangesNothing ==
    [][(/\ IsCheckpointCall(last') /\ pc' = "idle"
        /\ last'.ret \in PreconditionErrors) =>
         (rows' = rows /\ nextId' = nextId)]_vars

\* C36 witness: a call on a complete block above the latest canonical block
\* has failed, for a contract that has a checkpoint and a diff in the store.
C36_Witness ==
    /\ pc = "idle"
    /\ last.op = "createCheckpoint" /\ last.ret = "errNotPruned"
    /\ last.blockHash \in complete
    /\ \E r \in rows : r.contractAddress = last.contractAddress /\ r.kind = "checkpoint"
    /\ \E r \in rows : r.contractAddress = last.contractAddress /\ r.kind = "diff"

ActiveRegistrations(h) ==
    Cardinality({i \in 1..Len(peer.regs) : peer.regs[i].handler = h /\ peer.regs[i].active})

C39_BookkeepingMatchesConnections ==
    /\ \A p \in RemotePeers : IsListed(p) <=> peer.conns[p] > 0
    /\ \A p \in peer.pushed : peer.conns[p] > 0

\* C40: the events of the pair are fetched from upstream at most once and
\* saved at most once, and a getEvents call that has returned leaves the
\* pair marked synced.
C40_FetchedAndSavedOnce ==
    /\ watcher.fetched <= 1
    /\ watcher.saved <= 1
    /\ (\E g \in Callers : watcher.at[g] = "done") => watcher.didSyncEvents

====
